---- MODULE Spec2Model ----
(***************************************************************************)
(* Achievement rule engine of the savings/community backend.               *)
(*                                                                         *)
(* The model follows the DB-backed achievement service                     *)
(* (src/services/communityService.js, lines 562-955) and the achievement   *)
(* model (src/unnamed/part_006, lines 1-347) on top of the tables created  *)
(* in src/config/database.js.  Every `await` of a service function is an   *)
(* interleaving point: a request advances by one database query at a time. *)
(***************************************************************************)
EXTENDS Integers, Sequences, FiniteSets, TLC

VARIABLES
    achievement,        \* table achievement: sequence of rows, row id = index
    achievement_reward, \* table achievement_reward: set of <<achievement_id, item_id>>
    user_achievement,   \* table user_achievement: sequence of rows, row id = index
    user_metrics,       \* table user_metrics: user id -> counters
    now,                \* the database clock (NOW()): it advances with every insert
    proc,               \* the requests in flight: one record of locals per request slot
    edits,              \* number of single-query operations so far
    calls,              \* number of service calls started so far
    returned,           \* every unlock entry a call has handed back to its caller
    hist,               \* the call that completed last, in a serialized run
    ev                  \* inputs and result of one pure rule-evaluation call;
                        \* in SpecLike and SpecDays: the tables and requests of
                        \* the community and savings services

vars == <<achievement, achievement_reward, user_achievement, user_metrics,
          now, edits, calls, proc, returned, hist, ev>>

(***************************************************************************)
(* Bounds of the model.                                                    *)
(***************************************************************************)
MaxStat == 2

(***************************************************************************)
(* JavaScript values that reach the rule engine.  node-postgres hands an   *)
(* INT column over as a number and a BIGINT (COUNT, SUM) as a      *)
(* decimal string; a property that is not there reads as undefined.        *)
(***************************************************************************)
JsNum(n) == [t |-> "number", n |-> n]
JsStr(n) == [t |-> "string", n |-> n]
JsUndef == [t |-> "undefined", n |-> 0]

\* the name under which a missing `type` / `operator` is looked up
NoField == "undefined"

\* stats[type]
prop(stats, key) == IF key \in DOMAIN stats THEN stats[key] ELSE JsUndef

\* JavaScript falsiness of the values above ("0" is a non-empty string)
falsy(v) == v.t = "undefined" \/ (v.t = "number" /\ v.n = 0)

\* x || 0
orZero(v) == IF falsy(v) THEN JsNum(0) ELSE v

\* ToNumber yields NaN for undefined; every comparison with NaN is false
isNaN(v) == v.t = "undefined"

jsGe(a, b) == ~isNaN(a) /\ ~isNaN(b) /\ a.n >= b.n
jsGt(a, b) == ~isNaN(a) /\ ~isNaN(b) /\ a.n > b.n
jsLe(a, b) == ~isNaN(a) /\ ~isNaN(b) /\ a.n <= b.n
jsLt(a, b) == ~isNaN(a) /\ ~isNaN(b) /\ a.n < b.n
\* a === b : no conversion
jsStrictEq(a, b) == a.t = b.t /\ a.n = b.n

jsBool(b) == IF b THEN "true" ELSE "false"

\* what `if (x)` / Array.prototype.every make of a returned value
truthy(r) == r \in {"true", "object"}

(***************************************************************************)
(* evaluateCondition of the service: dispatch through the object literal   *)
(* operatorMap.  operatorMap[operator] also finds what the literal         *)
(* inherits from Object.prototype: `constructor` is the function Object    *)
(* (Object(a, b) returns a wrapper object), `valueOf` is a function that   *)
(* throws a TypeError when called without a receiver, `__proto__` is an    *)
(* object and calling it throws a TypeError.                               *)
(* Results: "true", "false", "object" (a non-boolean truthy value) or      *)
(* "throw".                                                                *)
(***************************************************************************)
evaluateCondition(condition, stats) ==
    LET userValue == orZero(prop(stats, condition.type))
        value == condition.value
        operator == condition.operator
    IN  CASE operator = ">=" -> jsBool(jsGe(userValue, value))
          [] operator = ">"  -> jsBool(jsGt(userValue, value))
          [] operator = "==" -> jsBool(jsStrictEq(userValue, value))
          [] operator = "<=" -> jsBool(jsLe(userValue, value))
          [] operator = "<"  -> jsBool(jsLt(userValue, value))
          [] operator = "constructor" -> "object"
          [] operator \in {"valueOf", "__proto__"} -> "throw"
          [] OTHER -> "false"

(***************************************************************************)
(* evaluateCondition of the in-memory engine: a switch with a default.     *)
(***************************************************************************)
evaluateConditionEngine(condition, stats) ==
    LET userValue == orZero(prop(stats, condition.type))
        value == condition.value
        operator == condition.operator
    IN  CASE operator = ">=" -> jsBool(jsGe(userValue, value))
          [] operator = ">"  -> jsBool(jsGt(userValue, value))
          [] operator = "==" -> jsBool(jsStrictEq(userValue, value))
          [] operator = "<=" -> jsBool(jsLe(userValue, value))
          [] operator = "<"  -> jsBool(jsLt(userValue, value))
          [] OTHER -> "false"

(***************************************************************************)
(* conditions.every(c => evaluateCondition(c, stats)): left to right,      *)
(* stops at the first falsy result, a throw leaves the loop.               *)
(***************************************************************************)
RECURSIVE everyFrom(_, _, _)
everyFrom(conditions, stats, i) ==
    IF i > Len(conditions) THEN "true"
    ELSE LET r == evaluateCondition(conditions[i], stats)
         IN  IF r = "throw" THEN "throw"
             ELSE IF truthy(r) THEN everyFrom(conditions, stats, i + 1)
             ELSE "false"

\* conditions.some(...) in place of conditions.every(...)
evaluateAllConditions_some(conditions, stats) ==
    IF \E i \in 1..Len(conditions) : truthy(evaluateCondition(conditions[i], stats))
    THEN "true" ELSE "false"

evaluateAllConditions(conditions, stats) == everyFrom(conditions, stats, 1)

(***************************************************************************)
(* The JSONB column achievement.condition as JavaScript sees it:           *)
(*   kind "null"   - SQL NULL / JSON null                                  *)
(*   kind "falsy"  - a falsy JSON scalar (0, false, "")                    *)
(*   kind "object" - one condition object, items = <<it>>                  *)
(*   kind "array"  - a list of condition objects, items = the list         *)
(***************************************************************************)
CondNull == [kind |-> "null", items |-> <<>>]
CondFalsy == [kind |-> "falsy", items |-> <<>>]
CondObject(c) == [kind |-> "object", items |-> <<c>>]
CondArray(cs) == [kind |-> "array", items |-> cs]

\* a condition object; a field that is not there is NoField / JsUndef
Cond(type, operator, n) == [type |-> type, operator |-> operator, value |-> JsNum(n)]

isAchievementEligible(a, stats) ==
    IF a.condition.kind \in {"null", "falsy"} THEN "false"
    ELSE LET conditions == IF a.condition.kind = "array"
                           THEN a.condition.items
                           ELSE <<a.condition.items[1]>>
         IN  evaluateAllConditions(conditions, stats)

(***************************************************************************)
(* Inputs of the pure rule-evaluation calls.                               *)
(***************************************************************************)
EvTypes == {"bucket_count", "total_success_days", "no_such_stat", NoField}
EvOperators == {">=", ">", "==", "<=", "<", "!=", "constructor", "valueOf"}
EvObjects == {Cond(ty, op, n) : ty \in EvTypes, op \in EvOperators, n \in 0..MaxStat}

\* the lists: empty, and two-element lists over a few representative objects
EvListMembers ==
    { Cond("bucket_count", ">=", 1), Cond("total_success_days", "<=", 1),
      Cond("bucket_count", "!=", 1), Cond("bucket_count", "valueOf", 1),
      Cond("bucket_count", "constructor", 1), Cond(NoField, "<=", 1) }
EvLists == {<<>>} \cup {<<a, b>> : a \in EvListMembers, b \in EvListMembers}

EvConditions == {CondNull, CondFalsy} \cup {CondObject(c) : c \in EvObjects}
                    \cup {CondArray(l) : l \in EvLists}

\* what getUserStatsForAchievements returns for a user: INT counters as
\* numbers, the COUNT/SUM columns as strings
EvSnapshots ==
    { [bucket_count |-> JsNum(b), total_success_days |-> JsStr(s)] :
        b \in 0..MaxStat, s \in 0..MaxStat }

EvIdle == [pc |-> "in", fn |-> "none", condition |-> CondNull,
           stats |-> [bucket_count |-> JsNum(0), total_success_days |-> JsStr(0)],
           result |-> "none"]

(***************************************************************************)
(* The user table.  Sign-up is outside the achievement subsystem: two      *)
(* users are registered, a third e-mail address belongs to nobody.         *)
(***************************************************************************)
NoUser == 0
Users == {1, 2}
Emails == {"a@u", "b@u", "x@u"}
KnownEmails == {"a@u", "b@u"}

\* the lookup that falls back to the first user
findUserByEmail_firstUser(email) ==
    CASE email = "b@u" -> 2
      [] OTHER -> 1

findUserByEmail(email) ==
    CASE email = "a@u" -> 1
      [] email = "b@u" -> 2
      [] OTHER -> NoUser

\* achievement codes and reward items that requests may name
Codes == {"c1", "c2"}
Items == {1}

(***************************************************************************)
(* Bounds of the stateful model.                                           *)
(***************************************************************************)
MaxMetric == 1          \* largest counter value updateUserStats writes
MaxEdits == 1           \* single-query operations (updates of catalog, links, counters) per run
MaxCalls == 2           \* service calls started in a concurrent run
MaxSeqCalls == 3        \* operations (service calls and single queries) of a serialized run

(***************************************************************************)
(* Achievement model: the queries of achievementModel.                     *)
(***************************************************************************)
SeqToSet(q) == {q[i] : i \in 1..Len(q)}

\* rows of a table that satisfy a WHERE clause, as a set of row ids
activeIds == {i \in 1..Len(achievement) : achievement[i].is_active}

\* the query without its WHERE is_active = true
getAllAchievements_anyState ==
    { l \in [1..Len(achievement) -> SeqToSet(achievement)] :
        \A i, j \in DOMAIN l : i < j =>
            /\ l[i].id # l[j].id
            /\ l[i].created_at >= l[j].created_at }

\* ORDER BY created_at DESC: every order of the active rows in which
\* created_at never increases (rows with equal created_at may come in
\* either order)
getAllAchievements ==
    { l \in [1..Cardinality(activeIds) -> SeqToSet(achievement)] :
        /\ \A i \in DOMAIN l : l[i].is_active
        /\ \A i, j \in DOMAIN l : i < j =>
              /\ l[i].id # l[j].id
              /\ l[i].created_at >= l[j].created_at }

\* the query without its is_active = true
getAchievementByCode_anyState(code) ==
    LET hits == {i \in 1..Len(achievement) : achievement[i].code = code}
    IN  IF hits = {} THEN <<>> ELSE <<achievement[CHOOSE i \in hits : TRUE]>>

\* WHERE code = $1 AND is_active = true ; rows[0] || null, as a sequence of
\* zero or one row (code is UNIQUE)
getAchievementByCode(code) ==
    LET hits == {i \in activeIds : achievement[i].code = code}
    IN  IF hits = {} THEN <<>> ELSE <<achievement[CHOOSE i \in hits : TRUE]>>

\* the query without its user_id = $1
hasUserUnlockedAchievement_anyUser(userId, achievementId) ==
    \E i \in 1..Len(user_achievement) :
        user_achievement[i].achievement_id = achievementId

hasUserUnlockedAchievement(userId, achievementId) ==
    \E i \in 1..Len(user_achievement) :
        /\ user_achievement[i].user_id = userId
        /\ user_achievement[i].achievement_id = achievementId

\* INSERT without the ON CONFLICT clause (and without the UNIQUE constraint)
unlockUserAchievement_noConflictClause(userId, achievementId, meta) ==
    LET row == [id |-> Len(user_achievement) + 1, user_id |-> userId,
                achievement_id |-> achievementId, unlocked_at |-> now,
                meta |-> meta]
    IN  [table |-> Append(user_achievement, row), rows |-> <<row>>, error |-> FALSE]

\* ON CONFLICT DO UPDATE in place of DO NOTHING: the existing row comes back
unlockUserAchievement_returnsExisting(userId, achievementId, meta) ==
    LET row == [id |-> Len(user_achievement) + 1, user_id |-> userId,
                achievement_id |-> achievementId, unlocked_at |-> now,
                meta |-> meta]
        old == {i \in 1..Len(user_achievement) :
                  /\ user_achievement[i].user_id = userId
                  /\ user_achievement[i].achievement_id = achievementId}
    IN  IF old # {}
        THEN [table |-> user_achievement,
              rows |-> <<user_achievement[CHOOSE i \in old : TRUE]>>, error |-> FALSE]
        ELSE [table |-> Append(user_achievement, row), rows |-> <<row>>, error |-> FALSE]

\* INSERT ... ON CONFLICT (user_id, achievement_id) DO NOTHING RETURNING * :
\* the new table and result.rows (empty when the pair was there already)
unlockUserAchievement(userId, achievementId, meta) ==
    LET row == [id |-> Len(user_achievement) + 1, user_id |-> userId,
                achievement_id |-> achievementId, unlocked_at |-> now,
                meta |-> meta]
        conflict == \E i \in 1..Len(user_achievement) :
                        /\ user_achievement[i].user_id = userId
                        /\ user_achievement[i].achievement_id = achievementId
    IN  IF conflict
        THEN [table |-> user_achievement, rows |-> <<>>, error |-> FALSE]
        ELSE [table |-> Append(user_achievement, row), rows |-> <<row>>, error |-> FALSE]

\* the items linked to an achievement (the join with cosmetic_item keeps
\* every link: item_id is a foreign key)
getAchievementRewards(achievementId) ==
    {l[2] : l \in {k \in achievement_reward : k[1] = achievementId}}

\* no bucket exists, so the COUNT and the SUM over saving_bucket are 0;
\* both arrive as strings
getUserStatsForAchievements(userId) ==
    [bucket_count |-> JsNum(user_metrics[userId].bucket_count),
     total_success_days |-> JsStr(0)]

(***************************************************************************)
(* A request slot: the locals of the service call it runs.                 *)
(***************************************************************************)
Procs == {1, 2}

ZeroStats == [bucket_count |-> JsNum(0), total_success_days |-> JsStr(0)]
CondUndefined == [kind |-> "undefined", items |-> <<>>]
NoRule == [code |-> "", title |-> FALSE, conditions |-> CondUndefined]
NoCall == [op |-> "none", user |-> NoUser, ok |-> FALSE, clean |-> FALSE]

\* pc: where the call stands; list[i]: the achievement at hand; rec: the
\* rows the insert returned; passed: the achievements for which the call
\* went past the already-unlocked guard and the eligibility test.
\* observed, prev, preStore: what a serialized run notes at the start of a
\* call - the call completed before it (and whether counters and catalog
\* are as that call left them) and the unlock table.
\* totals: the counts a listing returns next to its entries.
\* response: what the HTTP handler that started the call has sent.
Idle == [pc |-> "idle", op |-> "none", email |-> "", user |-> NoUser,
         code |-> "", rule |-> NoRule, stats |-> ZeroStats,
         list |-> <<>>, i |-> 0, batch |-> <<>>, rec |-> <<>>, passed |-> {},
         result |-> "none", observed |-> FALSE, prev |-> NoCall, preStore |-> <<>>,
         totals |-> [totalCompleted |-> 0, totalAchievements |-> 0],
         response |-> [message |-> "", newAchievements |-> CondUndefined]]

free(q) == proc[q].pc \in {"idle", "done", "failed"}
AllFree == \A q \in Procs : free(q)

\* a new request takes the lowest free slot
takes(p) == free(p) /\ \A q \in Procs : q < p => ~free(q)

(***************************************************************************)
(* Tables after initializeDatabase, with the two users signed up (each     *)
(* with its user_metrics row of zeros).                                    *)
(***************************************************************************)
InitStore ==
    /\ achievement = <<>>
    /\ achievement_reward = {}
    /\ user_achievement = <<>>
    /\ user_metrics = [u \in Users |-> [bucket_count |-> 0]]
    /\ now = 0
    /\ edits = 0
    /\ calls = 0
    /\ proc = [p \in Procs |-> Idle]
    /\ returned = {}
    /\ hist = NoCall

storeVars == <<achievement, achievement_reward, user_achievement, user_metrics,
               now, edits, calls, proc, returned, hist>>

(***************************************************************************)
(* Bookkeeping of a step of request p.                                     *)
(***************************************************************************)
\* the entries of a returned batch, each numbered by how many times its
\* (user, achievement) pair has now been handed to a caller
Recorded(pr) ==
    returned \cup
      { [user |-> pr.user, achievement_id |-> pr.batch[k].id,
         rid |-> pr.batch[k].rid, completedAt |-> pr.batch[k].completedAt,
         rewards |-> pr.batch[k].rewards,
         n |-> 1 + Cardinality({e \in returned :
                                  /\ e.user = pr.user
                                  /\ e.achievement_id = pr.batch[k].id})] :
        k \in 1..Len(pr.batch) }

\* what a serialized run remembers of a completed call
Summary(pr) == [op |-> pr.op, user |-> pr.user, ok |-> pr.pc = "done",
                clean |-> TRUE]

\* request p continues with locals `new`; a call that returns hands its
\* entries to the caller
Step(p, new) ==
    /\ proc' = [proc EXCEPT ![p] = new]
    /\ returned' = IF new.pc = "done" /\ new.op \in {"check", "force"}
                   THEN Recorded(new) ELSE returned
    /\ hist' = IF new.pc \in {"done", "failed"} /\ new.observed
               THEN Summary(new) ELSE hist

\* the call returns `result`.  Of an unobserved call only what the returned
\* value refers to is kept.
Finish(pr, result) ==
    IF pr.observed THEN [pr EXCEPT !.pc = "done", !.result = result]
    ELSE [Idle EXCEPT !.pc = "done", !.op = pr.op, !.email = pr.email,
                      !.user = pr.user, !.code = pr.code, !.rule = pr.rule,
                      !.list = IF pr.op = "force" THEN pr.list ELSE <<>>,
                      !.rec = IF pr.op = "force" THEN pr.rec ELSE <<>>,
                      !.batch = pr.batch, !.passed = pr.passed,
                      !.result = result]

\* the error swallowed: the call answers with what it has
Fail_answersEmpty(pr) == Finish(pr, "batch")

\* a rejected promise: the caller sees the error and nothing else
Fail(pr) ==
    IF pr.observed THEN [pr EXCEPT !.pc = "failed", !.result = "error"]
    ELSE [Idle EXCEPT !.pc = "failed", !.op = pr.op, !.email = pr.email,
                      !.user = pr.user, !.result = "error"]

\* the locals of a call that starts
Call(op, email, code, rule, observed) ==
    [Idle EXCEPT !.op = op, !.email = email, !.user = findUserByEmail(email),
                 !.code = code, !.rule = rule, !.observed = observed,
                 !.prev = IF observed THEN hist ELSE NoCall,
                 !.preStore = IF observed THEN user_achievement ELSE <<>>]

\* a concurrent run starts at most MaxCalls calls; a serialized run is
\* made of at most MaxSeqCalls operations, and a serialized call starts
\* when no other call is running
mayStart(p, observed) ==
    /\ takes(p)
    /\ IF observed THEN calls + edits < MaxSeqCalls ELSE calls < MaxCalls
    /\ observed => AllFree
    /\ calls' = calls + 1

\* what the caller pushes: {...achievement, completedAt, rewards}
Entry(a, unlockRecord, rewards) ==
    [id |-> a.id, code |-> a.code, rid |-> unlockRecord.id,
     completedAt |-> unlockRecord.unlocked_at, rewards |-> rewards]

(***************************************************************************)
(* checkAndRewardAchievements(studentEmail)                                *)
(***************************************************************************)
\* the call, up to and including findUserByEmail
BeginCheck(p, email, observed) ==
    /\ mayStart(p, observed)
    /\ LET pr == Call("check", email, "", NoRule, observed)
       IN  Step(p, IF pr.user = NoUser THEN Finish(pr, "batch")
                   ELSE [pr EXCEPT !.pc = "chk_stats"])
    /\ UNCHANGED <<achievement, achievement_reward, user_achievement,
                   user_metrics, now, edits, ev>>

StartCheck(p, email) == BeginCheck(p, email, FALSE)

\* const stats = await calculateUserStats(studentEmail)
CheckLoadStats(p) ==
    /\ proc[p].pc = "chk_stats"
    /\ Step(p, [proc[p] EXCEPT !.pc = "chk_all",
                               !.stats = getUserStatsForAchievements(proc[p].user)])
    /\ UNCHANGED <<achievement, achievement_reward, user_achievement,
                   user_metrics, now, edits, calls, ev>>

\* const allAchievements = await achievementModel.getAllAchievements()
CheckLoadAll(p) ==
    /\ proc[p].pc = "chk_all"
    /\ \E l \in getAllAchievements :
          Step(p, IF Len(l) = 0 THEN Finish([proc[p] EXCEPT !.list = l], "batch")
                  ELSE [proc[p] EXCEPT !.pc = "chk_has", !.list = l, !.i = 1])
    /\ UNCHANGED <<achievement, achievement_reward, user_achievement,
                   user_metrics, now, edits, calls, ev>>

\* the end of one pass through the for loop
NextAchievement(pr) ==
    IF pr.i = Len(pr.list) THEN Finish(pr, "batch")
    ELSE [pr EXCEPT !.pc = "chk_has", !.i = pr.i + 1, !.rec = <<>>]

\* await hasUserUnlockedAchievement(...); continue, or test eligibility and
\* issue the insert
CheckHasUnlocked(p) ==
    /\ proc[p].pc = "chk_has"
    /\ LET pr == proc[p]
           a == pr.list[pr.i]
           eligible == isAchievementEligible(a, pr.stats)
       IN  Step(p, IF hasUserUnlockedAchievement(pr.user, a.id) THEN NextAchievement(pr)
                   ELSE IF eligible = "throw" THEN Fail(pr)
                   ELSE IF eligible = "true"
                        THEN [pr EXCEPT !.pc = "chk_unlock",
                                        !.passed = pr.passed \cup {a.id}]
                   ELSE NextAchievement(pr))
    /\ UNCHANGED <<achievement, achievement_reward, user_achievement,
                   user_metrics, now, edits, calls, ev>>

\* const unlockRecord = await unlockUserAchievement(user.id, achievement.id,
\*                                                  { stats, unlockedAt })
CheckUnlock(p) ==
    /\ proc[p].pc = "chk_unlock"
    /\ LET pr == proc[p]
           a == pr.list[pr.i]
           ins == unlockUserAchievement(pr.user, a.id,
                      [forcedUnlock |-> FALSE, stats |-> pr.stats])
       IN  /\ user_achievement' = ins.table
           /\ now' = IF ins.rows = <<>> THEN now ELSE now + 1
           /\ Step(p, IF ins.error THEN Fail(pr)
                      ELSE IF ins.rows = <<>> THEN NextAchievement(pr)
                      ELSE [pr EXCEPT !.pc = "chk_rewards", !.rec = ins.rows])
    /\ UNCHANGED <<achievement, achievement_reward, user_metrics, edits, calls, ev>>

\* the step that also copies the rewards it read into the unlock row
CheckRewards_storesRewards(p) ==
    /\ proc[p].pc = "chk_rewards"
    /\ LET pr == proc[p]
           a == pr.list[pr.i]
           rewards == getAchievementRewards(a.id)
       IN  /\ Step(p, NextAchievement(
                     [pr EXCEPT !.batch = Append(pr.batch, Entry(a, pr.rec[1], rewards))]))
           /\ user_achievement' =
                 [user_achievement EXCEPT ![pr.rec[1].id].meta =
                     [forcedUnlock |-> FALSE, stats |-> pr.stats, rewards |-> rewards]]
    /\ UNCHANGED <<achievement, achievement_reward, user_metrics, now, edits, calls, ev>>

\* const rewards = await getAchievementRewards(achievement.id); push
CheckRewards(p) ==
    /\ proc[p].pc = "chk_rewards"
    /\ LET pr == proc[p]
           a == pr.list[pr.i]
           rewards == getAchievementRewards(a.id)
       IN  Step(p, NextAchievement(
                     [pr EXCEPT !.batch = Append(pr.batch, Entry(a, pr.rec[1], rewards))]))
    /\ UNCHANGED <<achievement, achievement_reward, user_achievement,
                   user_metrics, now, edits, calls, ev>>

(***************************************************************************)
(* forceUnlockAchievement(studentEmail, achievementCode)                   *)
(***************************************************************************)
BeginForce(p, email, code, observed) ==
    /\ mayStart(p, observed)
    /\ LET pr == Call("force", email, code, NoRule, observed)
       IN  Step(p, IF pr.user = NoUser THEN Finish(pr, "null")
                   ELSE [pr EXCEPT !.pc = "frc_code"])
    /\ UNCHANGED <<achievement, achievement_reward, user_achievement,
                   user_metrics, now, edits, ev>>

StartForce(p, email, code) == BeginForce(p, email, code, FALSE)

\* const achievement = await getAchievementByCode(achievementCode)
ForceLookup(p) ==
    /\ proc[p].pc = "frc_code"
    /\ LET pr == proc[p]
           found == getAchievementByCode(pr.code)
       IN  Step(p, IF found = <<>> THEN Finish(pr, "null")
                   ELSE [pr EXCEPT !.pc = "frc_has", !.list = found, !.i = 1])
    /\ UNCHANGED <<achievement, achievement_reward, user_achievement,
                   user_metrics, now, edits, calls, ev>>

\* const alreadyUnlocked = await hasUserUnlockedAchievement(...)
ForceHasUnlocked(p) ==
    /\ proc[p].pc = "frc_has"
    /\ LET pr == proc[p]
       IN  Step(p, IF hasUserUnlockedAchievement(pr.user, pr.list[1].id)
                   THEN Finish(pr, "null")
                   ELSE [pr EXCEPT !.pc = "frc_unlock"])
    /\ UNCHANGED <<achievement, achievement_reward, user_achievement,
                   user_metrics, now, edits, calls, ev>>

\* const unlockRecord = await unlockUserAchievement(user.id, achievement.id,
\*                                                  { forcedUnlock: true, ... })
ForceUnlock(p) ==
    /\ proc[p].pc = "frc_unlock"
    /\ LET pr == proc[p]
           ins == unlockUserAchievement(pr.user, pr.list[1].id,
                      [forcedUnlock |-> TRUE, stats |-> ZeroStats])
       IN  /\ user_achievement' = ins.table
           /\ now' = IF ins.rows = <<>> THEN now ELSE now + 1
           /\ Step(p, IF ins.error THEN Fail(pr)
                      ELSE IF ins.rows = <<>> THEN Finish(pr, "null")
                      ELSE [pr EXCEPT !.pc = "frc_rewards", !.rec = ins.rows])
    /\ UNCHANGED <<achievement, achievement_reward, user_metrics, edits, calls, ev>>

\* const rewards = await getAchievementRewards(achievement.id); return
ForceRewards(p) ==
    /\ proc[p].pc = "frc_rewards"
    /\ LET pr == proc[p]
           rewards == getAchievementRewards(pr.list[1].id)
       IN  Step(p, Finish([pr EXCEPT !.batch = <<Entry(pr.list[1], pr.rec[1], rewards)>>],
                          "entry"))
    /\ UNCHANGED <<achievement, achievement_reward, user_achievement,
                   user_metrics, now, edits, calls, ev>>

(***************************************************************************)
(* addAchievementRule(rule)                                                *)
(***************************************************************************)
\* the rules a caller may pass: with or without code and title, with
\* `conditions` missing, empty, holding one condition, or holding a
\* condition that lacks its `type`
Rules ==
    { [code |-> "c1", title |-> TRUE, conditions |-> cs] :
        cs \in {CondUndefined, CondArray(<<>>),
                CondArray(<<Cond("bucket_count", ">=", 1)>>)} }
      \cup { [code |-> "c2", title |-> TRUE,
              conditions |-> CondArray(<<Cond("bucket_count", ">=", 1)>>)],
             [code |-> "c2", title |-> TRUE,
              conditions |-> CondArray(<<Cond(NoField, "<=", 0)>>)],
             [code |-> "", title |-> TRUE, conditions |-> CondUndefined],
             [code |-> "c1", title |-> FALSE, conditions |-> CondUndefined] }

\* rule.conditions || rule.condition || []   (an empty array is truthy)
validatedCondition(rule) ==
    IF rule.conditions.kind # "undefined" THEN rule.conditions ELSE CondArray(<<>>)

\* the insert into a table whose code column is not UNIQUE
createAchievement_noUnique(rule) ==
    [table |-> Append(achievement,
                 [id |-> Len(achievement) + 1, code |-> rule.code,
                  condition |-> validatedCondition(rule), is_active |-> TRUE,
                  created_at |-> now]),
     ok |-> TRUE]

\* INSERT INTO achievement ... : code is UNIQUE, a second row with the code
\* is refused with an error
createAchievement(rule) ==
    IF \E i \in 1..Len(achievement) : achievement[i].code = rule.code
    THEN [table |-> achievement, ok |-> FALSE]
    ELSE [table |-> Append(achievement,
                      [id |-> Len(achievement) + 1, code |-> rule.code,
                       condition |-> validatedCondition(rule), is_active |-> TRUE,
                       created_at |-> now]),
          ok |-> TRUE]

\* the call, up to the check of code and title
BeginAdd(p, rule, observed) ==
    /\ mayStart(p, observed)
    /\ LET pr == Call("add", "", rule.code, rule, observed)
       IN  Step(p, IF rule.code = "" \/ ~rule.title THEN Finish(pr, "false")
                   ELSE [pr EXCEPT !.pc = "add_code"])
    /\ UNCHANGED <<achievement, achievement_reward, user_achievement,
                   user_metrics, now, edits, ev>>

\* const existingAchievement = await getAchievementByCode(rule.code)
AddLookup(p) ==
    /\ proc[p].pc = "add_code"
    /\ Step(p, IF getAchievementByCode(proc[p].code) # <<>>
               THEN Finish(proc[p], "false")
               ELSE [proc[p] EXCEPT !.pc = "add_create"])
    /\ UNCHANGED <<achievement, achievement_reward, user_achievement,
                   user_metrics, now, edits, calls, ev>>

\* await createAchievement(validatedRule); return true   (an error of the
\* insert is caught and answered with false)
AddCreate(p) ==
    /\ proc[p].pc = "add_create"
    /\ LET ins == createAchievement(proc[p].rule)
       IN  /\ achievement' = ins.table
           /\ now' = IF ins.ok THEN now + 1 ELSE now
           /\ Step(p, Finish(proc[p], IF ins.ok THEN "true" ELSE "false"))
    /\ UNCHANGED <<achievement_reward, user_achievement, user_metrics,
                   edits, calls, ev>>

(***************************************************************************)
(* Single-query operations.  A run makes at most MaxEdits of them.         *)
(***************************************************************************)
\* the updates of the catalog that are tried: deactivate, reactivate,
\* replace the condition by a single condition object
Deactivate == [field |-> "is_active", is_active |-> FALSE, condition |-> CondNull]

Updates ==
    { Deactivate, [Deactivate EXCEPT !.is_active = TRUE],
      [field |-> "condition", is_active |-> TRUE,
       condition |-> CondObject(Cond("bucket_count", ">", 1))] }

\* the update that also revokes the unlocks of an achievement whose
\* condition it replaces
UpdateAchievement_revokes(id, updateData) ==
    /\ edits < MaxEdits
    /\ id \in 1..Len(achievement)
    /\ achievement' = [achievement EXCEPT ![id] =
            IF updateData.field = "is_active"
            THEN [@ EXCEPT !.is_active = updateData.is_active]
            ELSE [@ EXCEPT !.condition = updateData.condition]]
    /\ achievement' # achievement
    /\ edits' = edits + 1
    /\ hist' = [hist EXCEPT !.clean = FALSE]
    /\ user_achievement' =
          IF updateData.field = "is_active" THEN user_achievement
          ELSE LET kept(r) == r.achievement_id # id
               IN  SelectSeq(user_achievement, kept)
    /\ UNCHANGED <<achievement_reward, user_metrics, now, calls, proc, returned, ev>>

\* achievementModel.updateAchievement(achievementId, updateData)
UpdateAchievement(id, updateData) ==
    /\ edits < MaxEdits
    /\ id \in 1..Len(achievement)
    /\ achievement' = [achievement EXCEPT ![id] =
            IF updateData.field = "is_active"
            THEN [@ EXCEPT !.is_active = updateData.is_active]
            ELSE [@ EXCEPT !.condition = updateData.condition]]
    /\ achievement' # achievement
    /\ edits' = edits + 1
    /\ hist' = [hist EXCEPT !.clean = FALSE]
    /\ UNCHANGED <<achievement_reward, user_achievement, user_metrics, now,
                   calls, proc, returned, ev>>

\* achievementModel.addAchievementReward(achievementId, itemId)
AddAchievementReward(id, item) ==
    /\ edits < MaxEdits
    /\ id \in 1..Len(achievement)
    /\ <<id, item>> \notin achievement_reward
    /\ achievement_reward' = achievement_reward \cup {<<id, item>>}
    /\ edits' = edits + 1
    /\ UNCHANGED <<achievement, user_achievement, user_metrics, now,
                   calls, proc, returned, hist, ev>>

\* updateUserStats(studentEmail, { bucket_count: n })
UpdateUserStats(email, n) ==
    /\ edits < MaxEdits
    /\ findUserByEmail(email) # NoUser
    /\ user_metrics[findUserByEmail(email)].bucket_count # n
    /\ user_metrics' = [user_metrics EXCEPT ![findUserByEmail(email)].bucket_count = n]
    /\ edits' = edits + 1
    /\ hist' = [hist EXCEPT !.clean = FALSE]
    /\ UNCHANGED <<achievement, achievement_reward, user_achievement, now,
                   calls, proc, returned, ev>>

\* the failure of the reward query undoing the inserts of the call
QueryFails_rollsBack(p) ==
    /\ ~free(p)
    /\ Step(p, IF proc[p].op = "add" THEN Finish(proc[p], "false") ELSE Fail(proc[p]))
    /\ user_achievement' = IF proc[p].pc \in {"chk_rewards", "frc_rewards"}
                           THEN proc[p].preStore ELSE user_achievement
    /\ UNCHANGED <<achievement, achievement_reward, user_metrics, now, edits,
                   calls, ev>>

\* the query a request is waiting for fails: check and force unlock reject,
\* addAchievementRule catches the error and answers false
QueryFails(p) ==
    /\ ~free(p)
    /\ Step(p, IF proc[p].op = "add" THEN Finish(proc[p], "false") ELSE Fail(proc[p]))
    /\ UNCHANGED <<achievement, achievement_reward, user_achievement,
                   user_metrics, now, edits, calls, ev>>

(***************************************************************************)
(* Spec: concurrent check and force-unlock requests against a registered   *)
(* catalog, while achievements are deactivated and rewards are linked.     *)
(***************************************************************************)
\* two achievements registered one after the other: the first asks for a
\* bucket, the second (a single condition object) is met by every user.
\* User 1 owns a bucket, user 2 does not.  One reward item is linked.
Init ==
    /\ achievement =
         << [id |-> 1, code |-> "c1", is_active |-> TRUE, created_at |-> 0,
             condition |-> CondArray(<<Cond("bucket_count", ">=", 1)>>)],
            [id |-> 2, code |-> "c2", is_active |-> TRUE, created_at |-> 1,
             condition |-> CondObject(Cond("bucket_count", ">=", 0))] >>
    /\ achievement_reward = {<<1, 1>>}
    /\ user_achievement = <<>>
    /\ user_metrics = [u \in Users |-> [bucket_count |-> IF u = 1 THEN 1 ELSE 0]]
    /\ now = 2
    /\ edits = 0
    /\ calls = 0
    /\ proc = [p \in Procs |-> Idle]
    /\ returned = {}
    /\ hist = NoCall
    /\ ev = EvIdle

Next ==
    \/ \E p \in Procs, email \in KnownEmails : StartCheck(p, email)
    \/ \E p \in Procs : CheckLoadStats(p)
    \/ \E p \in Procs : CheckLoadAll(p)
    \/ \E p \in Procs : CheckHasUnlocked(p)
    \/ \E p \in Procs : CheckUnlock(p)
    \/ \E p \in Procs : CheckRewards(p)
    \/ \E p \in Procs, email \in KnownEmails, code \in Codes : StartForce(p, email, code)
    \/ \E p \in Procs : ForceLookup(p)
    \/ \E p \in Procs : ForceHasUnlocked(p)
    \/ \E p \in Procs : ForceUnlock(p)
    \/ \E p \in Procs : ForceRewards(p)
    \/ \E id \in 1..Cardinality(Codes) : UpdateAchievement(id, Deactivate)
    \/ \E id \in 1..Cardinality(Codes), item \in Items : AddAchievementReward(id, item)
    \/ \E p \in Procs : QueryFails(p)

Spec == Init /\ [][Next]_vars

(***************************************************************************)
(* SpecSeq: one request at a time, starting from the empty catalog; no     *)
(* other operation runs while a request is in flight.                      *)
(***************************************************************************)
InitSeq ==
    /\ InitStore
    /\ ev = EvIdle

SeqCheck(email) == \E p \in Procs : BeginCheck(p, email, TRUE)
SeqForce(email, code) == \E p \in Procs : BeginForce(p, email, code, TRUE)
SeqAdd(rule) == \E p \in Procs : BeginAdd(p, rule, TRUE)

\* a single-query operation of a serialized run
SeqEdit == AllFree /\ calls + edits < MaxSeqCalls

NextSeq ==
    \/ \E email \in Emails : SeqCheck(email)
    \/ \E p \in Procs : CheckLoadStats(p)
    \/ \E p \in Procs : CheckLoadAll(p)
    \/ \E p \in Procs : CheckHasUnlocked(p)
    \/ \E p \in Procs : CheckUnlock(p)
    \/ \E p \in Procs : CheckRewards(p)
    \/ \E email \in Emails, code \in Codes : SeqForce(email, code)
    \/ \E p \in Procs : ForceLookup(p)
    \/ \E p \in Procs : ForceHasUnlocked(p)
    \/ \E p \in Procs : ForceUnlock(p)
    \/ \E p \in Procs : ForceRewards(p)
    \/ \E rule \in Rules : SeqAdd(rule)
    \/ \E p \in Procs : AddLookup(p)
    \/ \E p \in Procs : AddCreate(p)
    \/ SeqEdit /\ \E id \in 1..Cardinality(Codes), u \in Updates : UpdateAchievement(id, u)
    \/ SeqEdit /\ \E id \in 1..Cardinality(Codes), item \in Items : AddAchievementReward(id, item)
    \/ SeqEdit /\ \E email \in Emails, n \in 0..MaxMetric : UpdateUserStats(email, n)
    \/ \E p \in Procs : QueryFails(p)

SpecSeq == InitSeq /\ [][NextSeq]_vars

InitEval ==
    /\ InitStore
    /\ ev \in { [EvIdle EXCEPT !.condition = c, !.stats = s] :
                  c \in EvConditions, s \in EvSnapshots }

ApplyEvaluateCondition ==
    /\ ev.pc = "in"
    /\ ev.condition.kind = "object"
    /\ ev' = [ev EXCEPT !.pc = "out", !.fn = "evaluateCondition",
                        !.result = evaluateCondition(ev.condition.items[1], ev.stats)]
    /\ UNCHANGED storeVars

ApplyEvaluateConditionEngine ==
    /\ ev.pc = "in"
    /\ ev.condition.kind = "object"
    /\ ev' = [ev EXCEPT !.pc = "out", !.fn = "evaluateConditionEngine",
                        !.result = evaluateConditionEngine(ev.condition.items[1], ev.stats)]
    /\ UNCHANGED storeVars

ApplyIsAchievementEligible ==
    /\ ev.pc = "in"
    /\ ev' = [ev EXCEPT !.pc = "out", !.fn = "isAchievementEligible",
                        !.result = isAchievementEligible([condition |-> ev.condition], ev.stats)]
    /\ UNCHANGED storeVars

NextEval ==
    \/ ApplyEvaluateCondition
    \/ ApplyEvaluateConditionEngine
    \/ ApplyIsAchievementEligible

SpecEval == InitEval /\ [][NextEval]_vars

(***************************************************************************)
(* Numbers of the progress formula.  JavaScript numbers are IEEE-754       *)
(* doubles: the quotient currentValue / targetValue and its product with   *)
(* 100 are each rounded to 53 significant bits (to nearest, ties to even)  *)
(* before Math.round sees the result.  A positive double is kept as        *)
(* [m, e]: its value is M * 2^(e - 52) with the 53-bit mantissa            *)
(* M = m[3] * 2^36 + m[2] * 2^18 + m[1], 2^52 <= M < 2^53.  The operators  *)
(* cover operands below 2^13 and results below 2^17.                       *)
(***************************************************************************)
LimbBits == 18
Limb == 262144              \* 2^18
TopOne == 65536             \* 2^16: the leading mantissa bit within m[3]

RECURSIVE pow2(_)
pow2(k) == IF k = 0 THEN 1 ELSE 2 * pow2(k - 1)

\* e >= 0 largest with t * 2^e <= c      (c >= t > 0)
RECURSIVE expUp(_, _)
expUp(c, t) == IF 2 * t <= c THEN 1 + expUp(c, 2 * t) ELSE 0

\* s >= 0 smallest with c * 2^s >= t      (c, t > 0)
RECURSIVE expDown(_, _)
expDown(c, t) == IF c >= t THEN 0 ELSE 1 + expDown(2 * c, t)

\* M + 1; a mantissa that reaches 2^53 becomes 2^52 with the next exponent
mantissaUp(m, e) ==
    IF m[1] + 1 < Limb THEN [m |-> <<m[1] + 1, m[2], m[3]>>, e |-> e]
    ELSE IF m[2] + 1 < Limb THEN [m |-> <<0, m[2] + 1, m[3]>>, e |-> e]
    ELSE IF m[3] + 1 < 2 * TopOne THEN [m |-> <<0, 0, m[3] + 1>>, e |-> e]
    ELSE [m |-> <<0, 0, TopOne>>, e |-> e + 1]

\* round to nearest, ties to even: m the kept bits, guard the first bit
\* dropped, sticky whether anything non-zero follows it
roundEven(m, e, guard, sticky) ==
    IF guard = 1 /\ (sticky \/ m[1] % 2 = 1) THEN mantissaUp(m, e)
    ELSE [m |-> m, e |-> e]

\* the limbs of (q3 * 2^36 + q2 * 2^18 + q1) shifted right by s bits, s < 18
shiftRight(q1, q2, q3, s) ==
    << (q1 \div pow2(s)) + (q2 % pow2(s)) * pow2(LimbBits - s),
       (q2 \div pow2(s)) + (q3 % pow2(s)) * pow2(LimbBits - s),
       q3 \div pow2(s) >>

\* c / t for integers c, t > 0: long division of the fraction bits, 18 at
\* a time, to 54 bits; the last two are the guard bit and part of the rest
fdiv(c, t) ==
    LET up == c >= t
        n0 == IF up THEN c ELSE c * pow2(expDown(c, t))
        d0 == IF up THEN t * pow2(expUp(c, t)) ELSE t
        e == IF up THEN expUp(c, t) ELSE 0 - expDown(c, t)
        r0 == n0 - d0
        q3 == (r0 * Limb) \div d0
        r1 == (r0 * Limb) % d0
        q2 == (r1 * Limb) \div d0
        r2 == (r1 * Limb) % d0
        q1 == (r2 * Limb) \div d0
        r3 == (r2 * Limb) % d0
        kept == shiftRight(q1, q2, q3, 2)
        guard == (q1 \div 2) % 2
        sticky == q1 % 2 = 1 \/ r3 # 0
    IN  roundEven(<<kept[1], kept[2], kept[3] + TopOne>>, e, guard, sticky)

\* x * k for a double x > 0 and an integer k, 64 <= k < 128: the product
\* of the mantissa has 59 or 60 bits, of which 53 are kept
fmul(x, k) ==
    LET v1 == x.m[1] * k
        v2 == x.m[2] * k + (v1 \div Limb)
        p1 == v1 % Limb
        p2 == v2 % Limb
        p3 == x.m[3] * k + (v2 \div Limb)
        s == IF p3 >= pow2(23) THEN 7 ELSE 6
        low == p1 % pow2(s)
        guard == low \div pow2(s - 1)
        sticky == low % pow2(s - 1) # 0
    IN  roundEven(shiftRight(p1, p2, p3, s), x.e + s, guard, sticky)

\* the whole part of a double x > 0 (x < 2^17), its first fraction bit, and
\* whether anything follows that bit
whole(x) == IF x.e < 0 THEN 0 ELSE x.m[3] \div pow2(16 - x.e)
halfBit(x) == IF x.e < -1 THEN FALSE
              ELSE IF x.e = 16 THEN x.m[2] \div pow2(LimbBits - 1) = 1
              ELSE (x.m[3] \div pow2(15 - x.e)) % 2 = 1
belowHalfBit(x) ==
    IF x.e < -1 THEN TRUE
    ELSE IF x.e = 16 THEN x.m[2] % pow2(LimbBits - 1) # 0 \/ x.m[1] # 0
    ELSE x.m[3] % pow2(15 - x.e) # 0 \/ x.m[2] # 0 \/ x.m[1] # 0

\* Math.round: the nearest integer, a tie goes towards +Infinity
mathRound(x, negative) ==
    IF negative
    THEN 0 - (whole(x) + (IF halfBit(x) /\ belowHalfBit(x) THEN 1 ELSE 0))
    ELSE whole(x) + (IF halfBit(x) THEN 1 ELSE 0)

JsNaN == [t |-> "NaN", n |-> 0]

\* ToNumber of the values that reach a division: a decimal string converts
\* to its number, undefined to NaN
toNumber(v) == IF v.t = "undefined" THEN JsNaN ELSE JsNum(v.n)

\* the formula without its Math.min(100, ...)
percent_uncapped(currentValue, targetValue) ==
    LET c == toNumber(currentValue)
        t == toNumber(targetValue)
    IN  IF c.t = "NaN" \/ t.t = "NaN" THEN JsNaN
        ELSE IF t.n = 0 THEN (IF c.n = 0 THEN JsNaN ELSE JsNum(100))
        ELSE IF c.n = 0 THEN JsNum(0)
        ELSE LET abs == IF t.n < 0 THEN 0 - t.n ELSE t.n
             IN  JsNum(mathRound(fmul(fdiv(c.n, abs), 100), t.n < 0))

\* Math.min(100, Math.round((currentValue / targetValue) * 100))
\*   0 / 0 and x / undefined are NaN, and NaN stays NaN;
\*   x / 0 is +Infinity for x > 0, and Math.min(100, Infinity) is 100
percent(currentValue, targetValue) ==
    LET c == toNumber(currentValue)
        t == toNumber(targetValue)
    IN  IF c.t = "NaN" \/ t.t = "NaN" THEN JsNaN
        ELSE IF t.n = 0 THEN (IF c.n = 0 THEN JsNaN ELSE JsNum(100))
        ELSE IF c.n = 0 THEN JsNum(0)
        ELSE LET abs == IF t.n < 0 THEN 0 - t.n ELSE t.n
                 r == mathRound(fmul(fdiv(c.n, abs), 100), t.n < 0)
             IN  JsNum(IF r > 100 THEN 100 ELSE r)

\* calculateAchievementProgress(condition, stats)
calculateAchievementProgress(condition, stats) ==
    LET targetValue == condition.value
        currentValue == orZero(prop(stats, condition.type))
    IN  [progress |-> percent(currentValue, targetValue),
         currentValue |-> currentValue,
         targetValue |-> targetValue]

\* the progress part of a listing entry: zeros unless the achievement has a
\* condition with a first element
progressInfo(condition, stats) ==
    IF condition.kind \in {"null", "falsy"} \/ condition.items = <<>>
    THEN [progress |-> JsNum(0), currentValue |-> JsNum(0), targetValue |-> JsNum(0)]
    ELSE calculateAchievementProgress(condition.items[1], stats)

(***************************************************************************)
(* SpecProg: the progress calculation on its own.  A run draws a stored    *)
(* condition and a statistics snapshot (and a second snapshot in which     *)
(* the counters are at least as large) and applies                         *)
(* calculateAchievementProgress to the first condition, or computes the    *)
(* progress part of a listing entry.                                       *)
(***************************************************************************)
MaxCurrent == 24        \* largest counter of a snapshot
MaxTarget == 40         \* largest target value of a condition

Snapshot(n) == [bucket_count |-> JsNum(n), total_success_days |-> JsStr(n)]

\* condition objects: every stat key (one the snapshot lacks, and none at
\* all), target values negative, zero, positive and missing
ProgObjects ==
    { [type |-> ty, operator |-> ">=", value |-> v] :
        ty \in EvTypes, v \in {JsUndef} \cup {JsNum(n) : n \in -1..MaxTarget} }

\* stored conditions: a single object, or a list whose later element asks
\* for something else
ProgConditions ==
    {CondNull, CondFalsy, CondArray(<<>>)}
      \cup {CondObject(c) : c \in {o \in ProgObjects : o.type # "total_success_days"}}
      \cup {CondArray(<<c, Cond("no_such_stat", ">=", 1)>>) :
              c \in {o \in ProgObjects : o.type = "total_success_days"}}

ProgIdle == [pc |-> "in", fn |-> "none", condition |-> CondNull,
             stats |-> Snapshot(0), more |-> Snapshot(0),
             result |-> [progress |-> JsNum(0), currentValue |-> JsNum(0),
                         targetValue |-> JsNum(0)],
             resultMore |-> [progress |-> JsNum(0), currentValue |-> JsNum(0),
                             targetValue |-> JsNum(0)]]

\* a pair of snapshots is drawn for the `>=` conditions on bucket_count
\* with a positive target; every other condition gets one snapshot
InitProg ==
    /\ InitStore
    /\ ev \in { [ProgIdle EXCEPT !.condition = c, !.stats = Snapshot(n),
                                 !.more = Snapshot(m)] :
                  c \in ProgConditions, n \in 0..MaxCurrent, m \in 0..MaxCurrent }
    /\ ev.stats.bucket_count.n <= ev.more.bucket_count.n
    /\ ev.stats # ev.more =>
          /\ ev.condition.kind = "object"
          /\ ev.condition.items[1].type = "bucket_count"
          /\ ev.condition.items[1].value.t = "number"
          /\ ev.condition.items[1].value.n > 0

ApplyCalculateAchievementProgress ==
    /\ ev.pc = "in"
    /\ ev.condition.items # <<>>
    /\ ev' = [ev EXCEPT !.pc = "out", !.fn = "calculateAchievementProgress",
                !.result = calculateAchievementProgress(ev.condition.items[1], ev.stats),
                !.resultMore = calculateAchievementProgress(ev.condition.items[1], ev.more)]
    /\ UNCHANGED storeVars

\* the progress part of the entry getAllAchievementsWithProgress builds
ApplyProgressInfo ==
    /\ ev.pc = "in"
    /\ ev.stats = ev.more
    /\ ev' = [ev EXCEPT !.pc = "out", !.fn = "progressInfo",
                !.result = progressInfo(ev.condition, ev.stats),
                !.resultMore = progressInfo(ev.condition, ev.stats)]
    /\ UNCHANGED storeVars

NextProg ==
    \/ ApplyCalculateAchievementProgress
    \/ ApplyProgressInfo

SpecProg == InitProg /\ [][NextProg]_vars

(***************************************************************************)
(* SpecNear: the progress of a single `>=` condition whose target is large *)
(* and whose current value is close to it.                                 *)
(***************************************************************************)
NearTarget == 200
Spread == 3

NearValues == (NearTarget - Spread)..(NearTarget + Spread)

NearConditions ==
    UNION { { CondObject(Cond(ty, ">=", t)), CondArray(<<Cond(ty, ">=", t)>>) } :
              ty \in {"bucket_count", "total_success_days"}, t \in NearValues }

InitNear ==
    /\ InitStore
    /\ ev \in { [ProgIdle EXCEPT !.condition = c, !.stats = Snapshot(n),
                                 !.more = Snapshot(n)] :
                  c \in NearConditions, n \in NearValues }

NextNear == ApplyProgressInfo

SpecNear == InitNear /\ [][NextNear]_vars

(***************************************************************************)
(* The read operations of the service.                                     *)
(***************************************************************************)
\* achievementModel.getAllAchievementsWithProgress(userId): achievement
\* LEFT JOIN user_achievement ON achievement_id AND user_id = $1, WHERE
\* is_active: one row per matching unlock row, one row without a match
joinedRows(userId) ==
    LET matches(i) == {k \in 1..Len(user_achievement) :
                         /\ user_achievement[k].user_id = userId
                         /\ user_achievement[k].achievement_id = i}
    IN  { [a |-> achievement[m[1]], is_unlocked |-> TRUE, rid |-> m[2]] :
            m \in {n \in activeIds \X (1..Len(user_achievement)) :
                     n[2] \in matches(n[1])} }
          \cup { [a |-> achievement[i], is_unlocked |-> FALSE, rid |-> 0] :
                   i \in {k \in activeIds : matches(k) = {}} }

\* ORDER BY (unlocked first), a.created_at DESC
achievementsWithProgress(userId) ==
    { l \in [1..Cardinality(joinedRows(userId)) -> joinedRows(userId)] :
        \A i, j \in DOMAIN l : i < j =>
            /\ l[i] # l[j]
            /\ l[i].is_unlocked \/ ~l[j].is_unlocked
            /\ l[i].is_unlocked = l[j].is_unlocked =>
                   l[i].a.created_at >= l[j].a.created_at }

\* the join without its a.is_active = true
getUserAchievements_anyState(userId) ==
    LET rows == { [a |-> achievement[user_achievement[k].achievement_id],
                   is_unlocked |-> TRUE, rid |-> k] :
                    k \in {n \in 1..Len(user_achievement) :
                             user_achievement[n].user_id = userId} }
    IN  { l \in [1..Cardinality(rows) -> rows] :
            \A i, j \in DOMAIN l : i < j =>
                /\ l[i] # l[j]
                /\ user_achievement[l[i].rid].unlocked_at
                       >= user_achievement[l[j].rid].unlocked_at }

\* achievementModel.getUserAchievements(userId): INNER JOIN, WHERE
\* ua.user_id = $1 AND a.is_active, ORDER BY ua.unlocked_at DESC
getUserAchievements(userId) ==
    LET rows == {r \in joinedRows(userId) : r.is_unlocked}
    IN  { l \in [1..Cardinality(rows) -> rows] :
            \A i, j \in DOMAIN l : i < j =>
                /\ l[i] # l[j]
                /\ user_achievement[l[i].rid].unlocked_at
                       >= user_achievement[l[j].rid].unlocked_at }

\* the snapshot calculateUserStats returns when there is no such user
NoUserStats == [bucket_count |-> JsNum(0), total_success_days |-> JsNum(0)]

\* { ...achievement, isCompleted: achievement.is_unlocked, ...progressInfo }
ListEntry(row, stats) ==
    LET info == progressInfo(row.a.condition, stats)
    IN  [id |-> row.a.id, code |-> row.a.code, rid |-> row.rid,
         isCompleted |-> row.is_unlocked, progress |-> info.progress,
         currentValue |-> info.currentValue, targetValue |-> info.targetValue]

\* getAllAchievementsWithProgress(studentEmail), up to findUserByEmail
BeginList(p, email) ==
    /\ mayStart(p, TRUE)
    /\ LET pr == Call("list", email, "", NoRule, TRUE)
       IN  Step(p, IF pr.user = NoUser THEN Finish(pr, "listing")
                   ELSE [pr EXCEPT !.pc = "lst_stats"])
    /\ UNCHANGED <<achievement, achievement_reward, user_achievement,
                   user_metrics, now, edits, ev>>

\* const stats = await calculateUserStats(studentEmail)
ListLoadStats(p) ==
    /\ proc[p].pc = "lst_stats"
    /\ Step(p, [proc[p] EXCEPT !.pc = "lst_query",
                               !.stats = getUserStatsForAchievements(proc[p].user)])
    /\ UNCHANGED <<achievement, achievement_reward, user_achievement,
                   user_metrics, now, edits, calls, ev>>

\* await achievementModel.getAllAchievementsWithProgress(user.id); map;
\* count; return
ListQuery(p) ==
    /\ proc[p].pc = "lst_query"
    /\ \E l \in achievementsWithProgress(proc[p].user) :
          LET achievements == [k \in 1..Len(l) |-> ListEntry(l[k], proc[p].stats)]
              totalCompleted ==
                  Cardinality({k \in 1..Len(l) : achievements[k].isCompleted})
          IN  Step(p, Finish([proc[p] EXCEPT
                                !.batch = achievements,
                                !.totals = [totalCompleted |-> totalCompleted,
                                            totalAchievements |-> Len(achievements)]],
                             "listing"))
    /\ UNCHANGED <<achievement, achievement_reward, user_achievement,
                   user_metrics, now, edits, calls, ev>>

\* getUserCompletedAchievements(studentEmail), up to findUserByEmail
BeginCompleted(p, email) ==
    /\ mayStart(p, TRUE)
    /\ LET pr == Call("completed", email, "", NoRule, TRUE)
       IN  Step(p, IF pr.user = NoUser THEN Finish(pr, "completed")
                   ELSE [pr EXCEPT !.pc = "cmp_query"])
    /\ UNCHANGED <<achievement, achievement_reward, user_achievement,
                   user_metrics, now, edits, ev>>

\* const completedAchievements = await getUserAchievements(user.id)
CompletedQuery(p) ==
    /\ proc[p].pc = "cmp_query"
    /\ \E l \in getUserAchievements(proc[p].user) :
          Step(p, [proc[p] EXCEPT !.pc = "cmp_rewards",
                                  !.list = [k \in 1..Len(l) |-> l[k].a],
                                  !.rec = [k \in 1..Len(l) |-> user_achievement[l[k].rid]]])
    /\ UNCHANGED <<achievement, achievement_reward, user_achievement,
                   user_metrics, now, edits, calls, ev>>

\* await Promise.all(... getAchievementRewards(achievement.id) ...); return
CompletedRewards(p) ==
    /\ proc[p].pc = "cmp_rewards"
    /\ LET pr == proc[p]
       IN  Step(p, Finish([pr EXCEPT !.batch =
                              [k \in 1..Len(pr.list) |->
                                 Entry(pr.list[k], pr.rec[k],
                                       getAchievementRewards(pr.list[k].id))]],
                          "completed"))
    /\ UNCHANGED <<achievement, achievement_reward, user_achievement,
                   user_metrics, now, edits, calls, ev>>

\* calculateUserStats(studentEmail), up to findUserByEmail
BeginStats(p, email) ==
    /\ mayStart(p, TRUE)
    /\ LET pr == Call("stats", email, "", NoRule, TRUE)
       IN  Step(p, IF pr.user = NoUser
                   THEN Finish([pr EXCEPT !.stats = NoUserStats], "stats")
                   ELSE [pr EXCEPT !.pc = "sts_query"])
    /\ UNCHANGED <<achievement, achievement_reward, user_achievement,
                   user_metrics, now, edits, ev>>

\* return await achievementModel.getUserStatsForAchievements(user.id)
StatsQuery(p) ==
    /\ proc[p].pc = "sts_query"
    /\ Step(p, Finish([proc[p] EXCEPT
                         !.stats = getUserStatsForAchievements(proc[p].user)],
                      "stats"))
    /\ UNCHANGED <<achievement, achievement_reward, user_achievement,
                   user_metrics, now, edits, calls, ev>>

(***************************************************************************)
(* SpecRead: a serialized run of every operation of the service, the read  *)
(* operations included, against a catalog that is already registered.      *)
(***************************************************************************)
MaxReadOps == 2         \* operations of a run of SpecRead
ManyBuckets == 40       \* target value of the first registered achievement
SomeBuckets == 23       \* buckets of user 1

\* three achievements: a list of two conditions (ManyBuckets buckets, of
\* which user 1 owns SomeBuckets, and a statistic nobody has), an empty
\* list, and no condition.  User 2 owns no bucket; the first achievement
\* has been force-unlocked for user 1.  The code "c2" is still to be
\* registered.
InitRead ==
    /\ achievement =
         << [id |-> 1, code |-> "c1", is_active |-> TRUE, created_at |-> 0,
             condition |-> CondArray(<<Cond("bucket_count", ">=", ManyBuckets),
                                       Cond("no_such_stat", ">=", 1)>>)],
            [id |-> 2, code |-> "c3", is_active |-> TRUE, created_at |-> 1,
             condition |-> CondArray(<<>>)],
            [id |-> 3, code |-> "c4", is_active |-> TRUE, created_at |-> 2,
             condition |-> CondNull] >>
    /\ achievement_reward = {<<1, 1>>}
    /\ user_achievement =
         << [id |-> 1, user_id |-> 1, achievement_id |-> 1, unlocked_at |-> 3,
             meta |-> [forcedUnlock |-> TRUE, stats |-> ZeroStats]] >>
    /\ user_metrics = [u \in Users |-> [bucket_count |-> IF u = 1 THEN SomeBuckets ELSE 0]]
    /\ now = 4
    /\ edits = 0
    /\ calls = 0
    /\ proc = [p \in Procs |-> Idle]
    /\ returned = {}
    /\ hist = NoCall
    /\ ev = EvIdle

\* an operation of the run starts
ReadOp == AllFree /\ calls + edits < MaxReadOps

NextRead ==
    \/ ReadOp /\ \E email \in Emails : SeqCheck(email)
    \/ \E p \in Procs : CheckLoadStats(p)
    \/ \E p \in Procs : CheckLoadAll(p)
    \/ \E p \in Procs : CheckHasUnlocked(p)
    \/ \E p \in Procs : CheckUnlock(p)
    \/ \E p \in Procs : CheckRewards(p)
    \/ ReadOp /\ \E email \in Emails, code \in Codes : SeqForce(email, code)
    \/ \E p \in Procs : ForceLookup(p)
    \/ \E p \in Procs : ForceHasUnlocked(p)
    \/ \E p \in Procs : ForceUnlock(p)
    \/ \E p \in Procs : ForceRewards(p)
    \/ ReadOp /\ \E rule \in Rules : SeqAdd(rule)
    \/ \E p \in Procs : AddLookup(p)
    \/ \E p \in Procs : AddCreate(p)
    \/ ReadOp /\ \E p \in Procs, email \in Emails : BeginList(p, email)
    \/ \E p \in Procs : ListLoadStats(p)
    \/ \E p \in Procs : ListQuery(p)
    \/ ReadOp /\ \E p \in Procs, email \in Emails : BeginCompleted(p, email)
    \/ \E p \in Procs : CompletedQuery(p)
    \/ \E p \in Procs : CompletedRewards(p)
    \/ ReadOp /\ \E p \in Procs, email \in Emails : BeginStats(p, email)
    \/ \E p \in Procs : StatsQuery(p)
    \/ ReadOp /\ \E id \in 1..Cardinality(Codes), u \in Updates : UpdateAchievement(id, u)
    \/ ReadOp /\ \E id \in 1..Cardinality(Codes), item \in Items : AddAchievementReward(id, item)
    \/ ReadOp /\ \E email \in Emails, n \in 0..MaxMetric : UpdateUserStats(email, n)
    \/ \E p \in Procs : QueryFails(p)

SpecRead == InitRead /\ [][NextRead]_vars

(***************************************************************************)
(* SpecToggle: the operations of SpecRead on a catalog whose second        *)
(* achievement was unlocked by user 1 and then deactivated.                *)
(***************************************************************************)
InitToggle ==
    /\ achievement =
         << [id |-> 1, code |-> "c1", is_active |-> TRUE, created_at |-> 0,
             condition |-> CondArray(<<Cond("bucket_count", ">=", 1)>>)],
            [id |-> 2, code |-> "c3", is_active |-> FALSE, created_at |-> 1,
             condition |-> CondArray(<<>>)] >>
    /\ achievement_reward = {<<1, 1>>}
    /\ user_achievement =
         << [id |-> 1, user_id |-> 1, achievement_id |-> 2, unlocked_at |-> 2,
             meta |-> [forcedUnlock |-> FALSE, stats |-> ZeroStats]],
            [id |-> 2, user_id |-> 1, achievement_id |-> 1, unlocked_at |-> 3,
             meta |-> [forcedUnlock |-> TRUE, stats |-> ZeroStats]] >>
    /\ user_metrics = [u \in Users |-> [bucket_count |-> IF u = 1 THEN 0 ELSE 1]]
    /\ now = 4
    /\ edits = 0
    /\ calls = 0
    /\ proc = [p \in Procs |-> Idle]
    /\ returned = {}
    /\ hist = NoCall
    /\ ev = EvIdle

SpecToggle == InitToggle /\ [][NextRead]_vars

(***************************************************************************)
(* SpecHttp: POST /api/achievement/check.  The handler is synchronous: it  *)
(* calls the service, looks at what the call returned and answers.  The    *)
(* service function is async, so what it returns is a promise; the call    *)
(* itself goes on after the answer has been sent.                          *)
(***************************************************************************)
\* the value of a call of an async function
PendingPromise == [kind |-> "promise", items |-> <<>>]

\* newAchievements.length : a promise has no such property
lengthOf(v) == IF v.kind = "array" THEN JsNum(Len(v.items)) ELSE JsUndef

\* if (newAchievements.length > 0) res.json({message: `N ...`, newAchievements})
\* else res.json({message: '...', newAchievements: []})
respond(newAchievements) ==
    IF jsGt(lengthOf(newAchievements), JsNum(0))
    THEN [message |-> "unlocked", newAchievements |-> newAchievements]
    ELSE [message |-> "none", newAchievements |-> CondArray(<<>>)]

\* checkAchievementsController(req, res): the service call runs up to its
\* first await, the handler answers
CheckAchievementsController(p, email) ==
    /\ mayStart(p, TRUE)
    /\ LET pr == [Call("check", email, "", NoRule, TRUE) EXCEPT
                     !.response = respond(PendingPromise)]
       IN  Step(p, IF pr.user = NoUser THEN Finish(pr, "batch")
                   ELSE [pr EXCEPT !.pc = "chk_stats"])
    /\ UNCHANGED <<achievement, achievement_reward, user_achievement,
                   user_metrics, now, edits, ev>>

NextHttp ==
    \/ \E p \in Procs, email \in Emails : CheckAchievementsController(p, email)
    \/ \E p \in Procs : CheckLoadStats(p)
    \/ \E p \in Procs : CheckLoadAll(p)
    \/ \E p \in Procs : CheckHasUnlocked(p)
    \/ \E p \in Procs : CheckUnlock(p)
    \/ \E p \in Procs : CheckRewards(p)
    \/ SeqEdit /\ \E email \in Emails, n \in 0..MaxMetric : UpdateUserStats(email, n)
    \/ \E p \in Procs : QueryFails(p)

SpecHttp == Init /\ [][NextHttp]_vars

(***************************************************************************)
(* SpecRace: check, forced unlock and addAchievementRule requests running  *)
(* concurrently while the catalog, the reward links and the counters are   *)
(* edited.                                                                 *)
(***************************************************************************)
StartAdd(p, rule) == BeginAdd(p, rule, FALSE)

\* the rules registered during a race: a new code, and the code that is
\* taken already
RaceRules ==
    { [code |-> c, title |-> TRUE,
       conditions |-> CondArray(<<Cond("bucket_count", ">=", 1)>>)] : c \in Codes }

\* one achievement is registered (it asks for a bucket) and linked to a
\* reward item; user 1 owns a bucket, user 2 does not
InitRace ==
    /\ achievement =
         << [id |-> 1, code |-> "c1", is_active |-> TRUE, created_at |-> 0,
             condition |-> CondArray(<<Cond("bucket_count", ">=", 1)>>)] >>
    /\ achievement_reward = {<<1, 1>>}
    /\ user_achievement = <<>>
    /\ user_metrics = [u \in Users |-> [bucket_count |-> IF u = 1 THEN 1 ELSE 0]]
    /\ now = 1
    /\ edits = 0
    /\ calls = 0
    /\ proc = [p \in Procs |-> Idle]
    /\ returned = {}
    /\ hist = NoCall
    /\ ev = EvIdle

NextRace ==
    \/ \E p \in Procs, email \in KnownEmails : StartCheck(p, email)
    \/ \E p \in Procs : CheckLoadStats(p)
    \/ \E p \in Procs : CheckLoadAll(p)
    \/ \E p \in Procs : CheckHasUnlocked(p)
    \/ \E p \in Procs : CheckUnlock(p)
    \/ \E p \in Procs : CheckRewards(p)
    \/ \E p \in Procs, email \in KnownEmails, code \in Codes : StartForce(p, email, code)
    \/ \E p \in Procs : ForceLookup(p)
    \/ \E p \in Procs : ForceHasUnlocked(p)
    \/ \E p \in Procs : ForceUnlock(p)
    \/ \E p \in Procs : ForceRewards(p)
    \/ \E p \in Procs, rule \in RaceRules : StartAdd(p, rule)
    \/ \E p \in Procs : AddLookup(p)
    \/ \E p \in Procs : AddCreate(p)
    \/ \E id \in 1..Cardinality(Codes), u \in Updates : UpdateAchievement(id, u)
    \/ \E id \in 1..Cardinality(Codes), item \in Items : AddAchievementReward(id, item)
    \/ \E email \in KnownEmails, n \in 0..MaxMetric : UpdateUserStats(email, n)
    \/ \E p \in Procs : QueryFails(p)

SpecRace == InitRace /\ [][NextRace]_vars

(***************************************************************************)
(* SpecLike: togglePostLike(bucketId, studentEmail) of the community       *)
(* service (src/services/communityService.js, 262-308) on the table        *)
(* saving_bucket_like.  Bucket 1 is public, bucket 2 is not.  ev holds     *)
(* the like rows of bucket 1 and the locals of the requests.               *)
(***************************************************************************)
MaxToggles == 3

Buckets == {1, 2}
bucketIsPublic(bucketId) == bucketId = 1

LikeCall == [pc |-> "idle", user |-> NoUser, isCurrentlyLiked |-> FALSE,
             isLiked |-> FALSE, likeCount |-> 0]

\* rows: the like rows <<id, user_id>> of bucket 1; completed[u]: the calls
\* of user u that returned a result
InitLike ==
    /\ InitStore
    /\ ev = [rows |-> {}, nextId |-> 1, started |-> 0,
             call |-> [p \in Procs |-> LikeCall],
             completed |-> [u \in Users |-> 0]]

likeRowsOf(userId) == {r \in ev.rows : r[2] = userId}

\* findUserByEmail, getSavingsBucketById: an unknown user or a bucket that
\* is missing or not public makes the call throw
BeginToggle(p, bucketId, email) ==
    /\ ev.call[p].pc \in {"idle", "done", "failed"}
    /\ ev.started < MaxToggles
    /\ LET user == findUserByEmail(email)
       IN  ev' = [ev EXCEPT !.started = @ + 1,
                            !.call[p] = IF user = NoUser \/ ~bucketIsPublic(bucketId)
                                        THEN [LikeCall EXCEPT !.pc = "failed", !.user = user]
                                        ELSE [LikeCall EXCEPT !.pc = "check", !.user = user]]
    /\ UNCHANGED storeVars

\* SELECT id FROM saving_bucket_like WHERE bucket_id = $1 AND user_id = $2
ToggleCheck(p) ==
    /\ ev.call[p].pc = "check"
    /\ ev' = [ev EXCEPT !.call[p].pc = "write",
                        !.call[p].isCurrentlyLiked = likeRowsOf(ev.call[p].user) # {}]
    /\ UNCHANGED storeVars

\* DELETE ... WHERE bucket_id = $1 AND user_id = $2, or INSERT (refused
\* with an error when the pair is there: UNIQUE(bucket_id, user_id))
ToggleWrite(p) ==
    /\ ev.call[p].pc = "write"
    /\ LET c == ev.call[p]
       IN  IF c.isCurrentlyLiked
           THEN ev' = [ev EXCEPT !.rows = @ \ likeRowsOf(c.user), !.call[p].pc = "count"]
           ELSE IF likeRowsOf(c.user) # {}
           THEN ev' = [ev EXCEPT !.call[p].pc = "failed"]
           ELSE ev' = [ev EXCEPT !.rows = @ \cup {<<ev.nextId, c.user>>},
                                 !.nextId = @ + 1, !.call[p].pc = "count"]
    /\ UNCHANGED storeVars

\* SELECT COUNT(*) ... WHERE bucket_id = $1; return { isLiked, likeCount }
ToggleCount(p) ==
    /\ ev.call[p].pc = "count"
    /\ ev' = [ev EXCEPT !.call[p].pc = "done",
                        !.call[p].isLiked = ~ev.call[p].isCurrentlyLiked,
                        !.call[p].likeCount = Cardinality(ev.rows),
                        !.completed[ev.call[p].user] = @ + 1]
    /\ UNCHANGED storeVars

NextLike ==
    \/ \E p \in Procs, b \in Buckets, email \in Emails : BeginToggle(p, b, email)
    \/ \E p \in Procs : ToggleCheck(p)
    \/ \E p \in Procs : ToggleWrite(p)
    \/ \E p \in Procs : ToggleCount(p)

SpecLike == InitLike /\ [][NextLike]_vars

(***************************************************************************)
(* SpecDays: processDeposit (src/services/savingsService.js, 186-220) and  *)
(* recordBucketProgress (src/unnamed/part_006, 464-505) on one bucket.     *)
(* The INSERT names the conflict target (bucket_id, user_id, date), for    *)
(* which initializeDatabase creates no unique constraint; CREATE TABLE IF  *)
(* NOT EXISTS keeps a table that is already there, so the table of a       *)
(* deployment either has that constraint or has not.  Without it the       *)
(* statement is refused and the transaction is rolled back.  ev holds the  *)
(* progress rows of the bucket, its counters and the calendar day.         *)
(***************************************************************************)
MaxRecords == 3

Dates == {1, 2}
Statuses == {"success", "failed"}

InitDays ==
    /\ InitStore
    /\ \E unique \in BOOLEAN :
          ev = [unique |-> unique, progress |-> {}, nextId |-> 1,
                success_days |-> 0, fail_days |-> 0, last_progress_date |-> 0,
                today |-> 1, records |-> 0, threw |-> FALSE]

\* BEGIN; INSERT ... ON CONFLICT (bucket_id, user_id, date) DO UPDATE SET
\* status = EXCLUDED.status; UPDATE saving_bucket SET success_days =
\* success_days + 1 (or fail_days), last_progress_date = $2; COMMIT -
\* or ROLLBACK and throw
recordBucketProgress(date, status) ==
    IF ~ev.unique THEN [ev EXCEPT !.records = @ + 1, !.threw = TRUE]
    ELSE LET kept == {r \in ev.progress : r.date # date}
             old == ev.progress \ kept
             row == IF old = {} THEN [id |-> ev.nextId, date |-> date, status |-> status]
                    ELSE [(CHOOSE r \in old : TRUE) EXCEPT !.status = status]
         IN  [ev EXCEPT !.progress = kept \cup {row},
                        !.nextId = @ + 1,
                        !.success_days = IF status = "success" THEN @ + 1 ELSE @,
                        !.fail_days = IF status = "failed" THEN @ + 1 ELSE @,
                        !.last_progress_date = date,
                        !.records = @ + 1, !.threw = FALSE]

RecordBucketProgress(date, status) ==
    /\ ev.records < MaxRecords
    /\ ev' = recordBucketProgress(date, status)
    /\ UNCHANGED storeVars

\* recordBucketProgress(savingsId, bucket.user_id, today, 'success')
ProcessDeposit ==
    /\ ev.records < MaxRecords
    /\ ev' = recordBucketProgress(ev.today, "success")
    /\ UNCHANGED storeVars

\* midnight: new Date() gives the next day
NextDay ==
    /\ ev.today + 1 \in Dates
    /\ ev' = [ev EXCEPT !.today = @ + 1]
    /\ UNCHANGED storeVars

NextDays ==
    \/ \E date \in Dates, status \in Statuses : RecordBucketProgress(date, status)
    \/ ProcessDeposit
    \/ NextDay

SpecDays == InitDays /\ [][NextDays]_vars

(***************************************************************************)
(* Claims about the pure rule evaluation (checked under SpecEval).         *)
(***************************************************************************)
\* the number a snapshot holds for a stat key, 0 when the key is not there
statNumber(stats, key) == IF key \in DOMAIN stats THEN stats[key].n ELSE 0

\* C7: evaluateCondition returns exactly (v OP value), v being the snapshot's
\* value for `type` or 0 when it has none, for the five comparison operators,
\* and false - without throwing - for every other operator.
C7_EvaluateConditionIsComparison ==
    (ev.pc = "out" /\ ev.fn = "evaluateCondition") =>
        LET c == ev.condition.items[1]
            v == statNumber(ev.stats, c.type)
            expected == CASE c.operator = ">=" -> v >= c.value.n
                          [] c.operator = ">"  -> v > c.value.n
                          [] c.operator = "==" -> v = c.value.n
                          [] c.operator = "<=" -> v <= c.value.n
                          [] c.operator = "<"  -> v < c.value.n
                          [] OTHER -> FALSE
        IN  ev.result = jsBool(expected)

\* C8: a condition without a `type` field evaluates to false for every
\* operator, every target value and every snapshot.
C8_MissingTypeIsFalse ==
    (ev.pc = "out" /\ ev.fn = "evaluateCondition"
        /\ ev.condition.items[1].type = NoField) => ev.result = "false"

\* C9: isAchievementEligible is false for an absent/null condition; otherwise
\* a single condition counts as a one-element list and the result is true
\* exactly when every condition of the list evaluates true (so an empty list
\* is eligible for every snapshot).
C9_EligibleIsConjunction ==
    (ev.pc = "out" /\ ev.fn = "isAchievementEligible") =>
        /\ ev.condition.kind \in {"null", "falsy"} => ev.result = "false"
        /\ ev.condition.kind \in {"object", "array"} =>
              ( ev.result = "true" <=>
                  \A i \in 1..Len(ev.condition.items) :
                      truthy(evaluateCondition(ev.condition.items[i], ev.stats)) )
        /\ (ev.condition.kind = "array" /\ ev.condition.items = <<>>) => ev.result = "true"

\* a two-condition list whose conditions both hold has been found eligible
C9_Witness ==
    /\ ev.pc = "out" /\ ev.fn = "isAchievementEligible"
    /\ ev.condition.kind = "array" /\ Len(ev.condition.items) = 2
    /\ ev.condition.items[1].operator = ">="
    /\ ev.condition.items[2].operator = "<="
    /\ ev.result = "true"

(***************************************************************************)
(* Claims about the unlock store under concurrent requests (Spec).         *)
(***************************************************************************)
\* the rows of the unlock table for a (user, achievement) pair
recordsOf(u, a) ==
    {i \in 1..Len(user_achievement) :
        /\ user_achievement[i].user_id = u
        /\ user_achievement[i].achievement_id = a}

\* the achievements a call hands back
batchIds(pr) == {pr.batch[k].id : k \in 1..Len(pr.batch)}

\* C1: in every reachable state the unlock store holds at most one record
\* per (user, achievement) pair, whatever check and force-unlock calls ran
\* and however they interleaved.
C1_AtMostOneRecordPerPair ==
    \A i, j \in 1..Len(user_achievement) :
        ( /\ user_achievement[i].user_id = user_achievement[j].user_id
          /\ user_achievement[i].achievement_id = user_achievement[j].achievement_id )
        => i = j

\* a check call went past guard and eligibility test for an achievement, its
\* insert found the pair taken, and the call returned without it
C1_Witness ==
    \E p \in Procs :
        /\ proc[p].op = "check" /\ proc[p].pc = "done"
        /\ \E a \in proc[p].passed :
              a \notin batchIds(proc[p]) /\ recordsOf(proc[p].user, a) # {}

\* two check calls for the same user that both passed the guard for the
\* same eligible achievement and both returned: exactly one record exists
\* for it and exactly one of the two batches contains it
C2_OneWinner ==
    \A p, q \in Procs :
        ( /\ p # q
          /\ proc[p].op = "check" /\ proc[p].pc = "done"
          /\ proc[q].op = "check" /\ proc[q].pc = "done"
          /\ proc[p].user = proc[q].user )
        => \A a \in proc[p].passed \cap proc[q].passed :
              /\ Cardinality(recordsOf(proc[p].user, a)) = 1
              /\ (a \in batchIds(proc[p])) # (a \in batchIds(proc[q]))

\* the call whose insert meets the record of the other goes on with the
\* next achievement, or returns, with its batch as it was: a no-op, no error
C2_LoserGoesOn ==
    \A p \in Procs :
        ( /\ CheckUnlock(p)
          /\ recordsOf(proc[p].user, proc[p].list[proc[p].i].id) # {} )
        => /\ proc'[p].pc \in {"chk_has", "done"}
           /\ proc'[p].batch = proc[p].batch
           /\ user_achievement' = user_achievement

\* C2: two concurrent check calls for one user that both pass the guard for
\* the same eligible achievement create exactly one record, exactly one of
\* them returns the achievement, and the other completes without error and
\* without it.
C2_RaceHasOneWinner == []C2_OneWinner /\ [][C2_LoserGoesOn]_vars

\* both calls of a race returned: the loser normally, with a batch that
\* lacks the achievement both competed for
C2_Witness ==
    \E p, q \in Procs :
        /\ p # q
        /\ proc[p].op = "check" /\ proc[p].pc = "done" /\ proc[p].result = "batch"
        /\ proc[q].op = "check" /\ proc[q].pc = "done" /\ proc[q].result = "batch"
        /\ proc[p].user = proc[q].user
        /\ \E a \in proc[p].passed \cap proc[q].passed :
              a \in batchIds(proc[p]) /\ a \notin batchIds(proc[q])

\* every entry handed to a caller is the first for its pair and carries the
\* unlocked_at of the record it names
C3_ReturnedOnce ==
    \A e \in returned :
        /\ e.n = 1
        /\ \E i \in recordsOf(e.user, e.achievement_id) :
              /\ user_achievement[i].id = e.rid
              /\ user_achievement[i].unlocked_at = e.completedAt

\* the entry a call appends carries the unlocked_at of the row its insert
\* returned and the reward links as they are when the call reads them
C3_ReadAtCall ==
    \A p \in Procs :
        ( /\ proc[p].pc \in {"chk_rewards", "frc_rewards"}
          /\ Len(proc'[p].batch) = Len(proc[p].batch) + 1 )
        => LET e == proc'[p].batch[Len(proc'[p].batch)]
           IN  /\ e.completedAt = proc[p].rec[1].unlocked_at
               /\ e.rewards = getAchievementRewards(proc[p].list[proc[p].i].id)

\* C3: over any interleaving of check and force-unlock calls a (user,
\* achievement) pair is returned by at most one call; each returned entry
\* has completedAt equal to the unlocked_at of the record the call created
\* and the rewards linked to the achievement when the call read them.
C3_ReturnedAtMostOnce == []C3_ReturnedOnce /\ [][C3_ReadAtCall]_vars

\* a pair was returned by one call, and a force unlock of the same pair
\* found its achievement and came back with null
C3_Witness ==
    \E e \in returned, p \in Procs :
        /\ proc[p].op = "force" /\ proc[p].pc = "done" /\ proc[p].result = "null"
        /\ proc[p].user = e.user
        /\ proc[p].list # <<>> /\ proc[p].list[1].id = e.achievement_id

\* C6: a force unlock that finds user and active achievement leaves exactly
\* one record for the pair, whatever the user's statistics; it returns the
\* achievement with its rewards exactly when its own insert created the
\* record (which then carries forcedUnlock), and null without rewards when
\* the pair was unlocked already.
C6_ForceUnlock ==
    \A p \in Procs :
        ( /\ proc[p].op = "force" /\ proc[p].pc = "done"
          /\ proc[p].user # NoUser /\ proc[p].list # <<>> )
        => LET pr == proc[p]
               a == pr.list[1]
           IN  /\ Cardinality(recordsOf(pr.user, a.id)) = 1
               /\ pr.result = "entry" <=> pr.rec # <<>>
               /\ pr.result = "entry" =>
                    /\ Len(pr.batch) = 1
                    /\ pr.batch[1].id = a.id
                    /\ pr.batch[1].rewards \subseteq getAchievementRewards(a.id)
                    /\ \E i \in recordsOf(pr.user, a.id) :
                          /\ user_achievement[i] = pr.rec[1]
                          /\ user_achievement[i].meta.forcedUnlock
                          /\ user_achievement[i].unlocked_at = pr.batch[1].completedAt
               /\ pr.result # "entry" => (pr.result = "null" /\ pr.batch = <<>>)

\* a force unlock returned the first achievement (which asks for a bucket)
\* with its reward to a user who owns no bucket
C6_Witness ==
    \E p \in Procs :
        /\ proc[p].op = "force" /\ proc[p].pc = "done" /\ proc[p].result = "entry"
        /\ isAchievementEligible(proc[p].list[1],
                                 getUserStatsForAchievements(proc[p].user)) = "false"
        /\ proc[p].batch[1].rewards # {}

(***************************************************************************)
(* Claims about one call at a time (SpecSeq).                              *)
(***************************************************************************)
\* the pair was unlocked when the call started
unlockedBefore(pr, a) ==
    \E i \in 1..Len(pr.preStore) :
        /\ pr.preStore[i].user_id = pr.user
        /\ pr.preStore[i].achievement_id = a

\* the loaded achievements that were not unlocked when the call started
\* and are eligible on the snapshot the call loaded
due(pr) ==
    {pr.list[k].id : k \in {j \in 1..Len(pr.list) :
        /\ ~unlockedBefore(pr, pr.list[j].id)
        /\ isAchievementEligible(pr.list[j], pr.stats) = "true"}}

\* C4: a check call returns a non-empty batch when an active achievement is
\* eligible and not yet unlocked; a check call that directly follows a
\* completed check call for the same user, with counters and catalog
\* untouched in between, returns an empty batch and leaves the unlock table
\* as it was.
C4_SecondCallIsEmpty ==
    \A p \in Procs :
        ( /\ proc[p].observed /\ proc[p].op = "check" /\ proc[p].pc = "done"
          /\ proc[p].user # NoUser )
        => LET pr == proc[p]
           IN  /\ due(pr) # {} => pr.batch # <<>>
               /\ ( /\ pr.prev.op = "check" /\ pr.prev.ok /\ pr.prev.clean
                    /\ pr.prev.user = pr.user )
                  => (pr.batch = <<>> /\ user_achievement = pr.preStore)

\* the second of two check calls in a row, for a user who has an unlock
C4_Witness ==
    \E p \in Procs :
        /\ proc[p].observed /\ proc[p].op = "check" /\ proc[p].pc = "done"
        /\ proc[p].prev.op = "check" /\ proc[p].prev.ok /\ proc[p].prev.clean
        /\ proc[p].prev.user = proc[p].user
        /\ proc[p].batch = <<>>
        /\ recordsOf(proc[p].user, proc[p].list[1].id) # {}

\* a condition holds on a snapshot: it names a stat and one of the five
\* comparisons, and the stat (0 when the snapshot lacks it) compares so
conditionHolds(c, stats) ==
    /\ c.type # NoField
    /\ LET v == statNumber(stats, c.type)
       IN  CASE c.operator = ">=" -> v >= c.value.n
             [] c.operator = ">"  -> v > c.value.n
             [] c.operator = "==" -> v = c.value.n
             [] c.operator = "<=" -> v <= c.value.n
             [] c.operator = "<"  -> v < c.value.n
             [] OTHER -> FALSE

\* the loaded achievements that were not unlocked when the call started and
\* whose conditions all hold on the snapshot the call loaded
holding(pr) ==
    {pr.list[k].id : k \in {j \in 1..Len(pr.list) :
        /\ ~unlockedBefore(pr, pr.list[j].id)
        /\ pr.list[j].condition.kind \in {"object", "array"}
        /\ \A n \in 1..Len(pr.list[j].condition.items) :
              conditionHolds(pr.list[j].condition.items[n], pr.stats)}}

\* C5: a check call that runs alone and returns hands back exactly the
\* active achievements that had no record for the user before the call and
\* whose conditions all hold on the loaded snapshot; afterwards each of
\* them has a record and no other record was created.  (The state compared
\* is the one the call leaves: no counter or catalog edit since it returned.)
C5_BatchIsEligibleSet ==
    \A p \in Procs :
        ( /\ proc[p].observed /\ proc[p].op = "check" /\ proc[p].pc = "done"
          /\ proc[p].user # NoUser
          /\ hist = Summary(proc[p]) )
        => LET pr == proc[p]
               before == Len(pr.preStore)
           IN  /\ {pr.list[k].id : k \in 1..Len(pr.list)} = activeIds
               /\ pr.stats = getUserStatsForAchievements(pr.user)
               /\ batchIds(pr) = holding(pr)
               /\ Len(user_achievement) = before + Cardinality(holding(pr))
               /\ SubSeq(user_achievement, 1, before) = pr.preStore
               /\ \A i \in (before + 1)..Len(user_achievement) :
                     /\ user_achievement[i].user_id = pr.user
                     /\ user_achievement[i].achievement_id \in holding(pr)
               /\ \A a \in holding(pr) : recordsOf(pr.user, a) # {}

\* C10: addAchievementRule answers false, and creates nothing, for a rule
\* whose condition list is empty or missing.
C10_EmptyRuleRejected ==
    \A p \in Procs :
        ( /\ proc[p].op = "add" /\ proc[p].pc = "done"
          /\ validatedCondition(proc[p].rule).items = <<>> )
        => /\ proc[p].result = "false"
           /\ \A i \in 1..Len(achievement) : achievement[i].condition.items # <<>>

(***************************************************************************)
(* Claims about the progress calculation (checked under SpecProg).         *)
(***************************************************************************)
\* round(c / t * 100) with halves rounded up, for integers c >= 0, t > 0
roundedPercent(c, t) == (200 * c + t) \div (2 * t)

cappedPercent(c, t) == IF roundedPercent(c, t) > 100 THEN 100 ELSE roundedPercent(c, t)

\* C11: for a condition with a positive target value,
\* calculateAchievementProgress returns currentValue = the snapshot's value
\* for condition.type (0 if it has none), targetValue = condition.value and
\* progress = min(100, round(currentValue / targetValue * 100)), halves
\* rounded up.
C11_ProgressFormula ==
    (/\ ev.pc = "out"
     /\ ev.fn = "calculateAchievementProgress"
     /\ ev.condition.items[1].value.t = "number"
     /\ ev.condition.items[1].value.n > 0) =>
        LET c == ev.condition.items[1]
            v == statNumber(ev.stats, c.type)
        IN  /\ ev.result.currentValue.n = v
            /\ ev.result.currentValue.t # "undefined"
            /\ ev.result.targetValue = c.value
            /\ ev.result.progress = JsNum(cappedPercent(v, c.value.n))

\* C12: the progress attached to a listing entry is an integer in 0..100,
\* whatever the stored condition (a target value of 0, negative or missing
\* included) and whatever the non-negative snapshot.
C12_ProgressInRange ==
    (ev.pc = "out" /\ ev.fn = "progressInfo") =>
        /\ ev.result.progress.t = "number"
        /\ ev.result.progress.n \in 0..100

\* C13: for a `>=` condition with a positive target value, progress never
\* decreases when currentValue grows, and it is exactly 100 for every
\* currentValue >= targetValue.
C13_MonotoneAndSaturating ==
    (/\ ev.pc = "out"
     /\ ev.fn = "calculateAchievementProgress"
     /\ ev.condition.items[1].operator = ">="
     /\ ev.condition.items[1].value.t = "number"
     /\ ev.condition.items[1].value.n > 0) =>
        LET c == ev.condition.items[1]
            c1 == statNumber(ev.stats, c.type)
            c2 == statNumber(ev.more, c.type)
        IN  /\ c1 <= c2 => ev.result.progress.n <= ev.resultMore.progress.n
            /\ c1 >= c.value.n => ev.result.progress = JsNum(100)
            /\ c2 >= c.value.n => ev.resultMore.progress = JsNum(100)

\* a smaller counter below the target and a larger one beyond it
C13_Witness ==
    /\ ev.pc = "out"
    /\ ev.fn = "calculateAchievementProgress"
    /\ ev.condition.items[1].operator = ">="
    /\ ev.condition.items[1].value.n > 1
    /\ ev.stats.bucket_count.n > 0
    /\ ev.stats.bucket_count.n < ev.condition.items[1].value.n
    /\ ev.more.bucket_count.n > ev.condition.items[1].value.n
    /\ ev.result.progress.n < 100
    /\ ev.resultMore.progress = JsNum(100)

(***************************************************************************)
(* Claims about the read operations and the failure paths (checked under   *)
(* SpecRead).                                                              *)
(***************************************************************************)
\* a call of `op` that has returned, the store being as it left it
returnedCall(p, op) ==
    /\ proc[p].pc = "done"
    /\ proc[p].op = op
    /\ proc[p].observed
    /\ hist = Summary(proc[p])

\* the first condition of a stored condition, as a sequence of zero or one
firstCondition(condition) ==
    IF condition.kind \in {"null", "falsy"} \/ condition.items = <<>> THEN <<>>
    ELSE <<condition.items[1]>>

\* the listing has one entry per active achievement, isCompleted tells
\* whether an unlock record exists, and the totals count the entries
listingShape(pr) ==
    /\ Len(pr.batch) = Cardinality(activeIds)
    /\ {pr.batch[k].id : k \in 1..Len(pr.batch)} = activeIds
    /\ \A k \in 1..Len(pr.batch) :
          pr.batch[k].isCompleted <=> recordsOf(pr.user, pr.batch[k].id) # {}
    /\ pr.totals.totalAchievements = Len(pr.batch)
    /\ pr.totals.totalCompleted =
          Cardinality({k \in 1..Len(pr.batch) : pr.batch[k].isCompleted})

\* the numbers of an entry come from the first condition alone: 0/0/0
\* without one, else the snapshot's value, the target value and - for a
\* positive target - min(100, round(current / target * 100))
listingProgress(pr) ==
    \A k \in 1..Len(pr.batch) :
        LET e == pr.batch[k]
            first == firstCondition(achievement[e.id].condition)
            current == statNumber(getUserStatsForAchievements(pr.user), first[1].type)
        IN  /\ first = <<>> =>
                  /\ e.progress = JsNum(0)
                  /\ e.currentValue = JsNum(0)
                  /\ e.targetValue = JsNum(0)
            /\ first # <<>> =>
                  /\ e.currentValue.n = current
                  /\ e.targetValue = first[1].value
                  /\ (first[1].value.t = "number" /\ first[1].value.n > 0) =>
                        e.progress = JsNum(cappedPercent(current, first[1].value.n))

\* C14: for an existing user the listing has one entry per active
\* achievement; isCompleted is true exactly when an unlock record exists
\* for (user, achievement); progress, currentValue and targetValue are the
\* progress formula applied to the first condition only (0/0/0 for a null
\* condition or an empty list); totalAchievements is the number of entries
\* and totalCompleted the number of entries with isCompleted.
C14_ListingPerActiveAchievement ==
    \A p \in Procs :
        (returnedCall(p, "list") /\ proc[p].user # NoUser) =>
            listingShape(proc[p]) /\ listingProgress(proc[p])

\* the same, the progress of an entry being whatever
\* calculateAchievementProgress makes of the first condition
C14_ListingUpToTheFormula ==
    \A p \in Procs :
        (returnedCall(p, "list") /\ proc[p].user # NoUser) =>
            /\ listingShape(proc[p])
            /\ \A k \in 1..Len(proc[p].batch) :
                  LET e == proc[p].batch[k]
                      first == firstCondition(achievement[e.id].condition)
                  IN  first # <<>> =>
                        e.progress = calculateAchievementProgress(first[1],
                                        getUserStatsForAchievements(proc[p].user)).progress

\* no active achievement carries the code
noActiveCode(code) ==
    ~\E i \in 1..Len(achievement) :
        achievement[i].is_active /\ achievement[i].code = code

\* C15: forceUnlockAchievement returns null and leaves the unlock table as
\* it was when the e-mail address is unknown or no active achievement has
\* the code (a code that only a deactivated achievement carries included).
C15_ForceUnlockNoOp ==
    \A p \in Procs :
        (/\ returnedCall(p, "force")
         /\ proc[p].user = NoUser \/ noActiveCode(proc[p].code)) =>
            /\ proc[p].result = "null"
            /\ proc[p].batch = <<>>
            /\ user_achievement = proc[p].preStore

\* user 2 asks for the code of an achievement that has been deactivated
C15_Witness ==
    \E p \in Procs :
        /\ returnedCall(p, "force")
        /\ proc[p].user = 2
        /\ proc[p].result = "null"
        /\ \E i \in 1..Len(achievement) :
              achievement[i].code = proc[p].code /\ ~achievement[i].is_active

\* the operations that answer an unknown e-mail address with an empty result
EmptyForNoUser == {"check", "list", "completed", "stats"}

\* a call for an address nobody owns has returned at once, with nothing in it
C16_EmptyResult ==
    \A p \in Procs :
        (proc[p].op \in EmptyForNoUser /\ proc[p].email \notin KnownEmails) =>
            /\ proc[p].pc = "done"
            /\ proc[p].batch = <<>>
            /\ proc[p].op = "check" => proc[p].result = "batch"
            /\ proc[p].op = "list" =>
                  /\ proc[p].result = "listing"
                  /\ proc[p].totals = [totalCompleted |-> 0, totalAchievements |-> 0]
            /\ proc[p].op = "completed" => proc[p].result = "completed"
            /\ proc[p].op = "stats" =>
                  /\ proc[p].result = "stats"
                  /\ \A k \in DOMAIN proc[p].stats : proc[p].stats[k] = JsNum(0)

\* a step of such a call changes no table
C16_NoWrite ==
    \A p \in Procs :
        (/\ proc'[p] # proc[p]
         /\ proc'[p].op \in EmptyForNoUser
         /\ proc'[p].email \notin KnownEmails) =>
            UNCHANGED <<achievement, achievement_reward, user_achievement, user_metrics>>

\* C16: for an unknown e-mail address checkAndRewardAchievements returns an
\* empty batch, getAllAchievementsWithProgress an empty listing with zero
\* totals, getUserCompletedAchievements empty lists and calculateUserStats
\* an all-zero snapshot; none of them throws, none changes a table.
C16_UnknownUserIsEmpty == []C16_EmptyResult /\ [][C16_NoWrite]_vars

\* the listing for an unknown address, right after a check for one
C16_Witness ==
    \E p \in Procs :
        /\ returnedCall(p, "list")
        /\ proc[p].email \notin KnownEmails
        /\ proc[p].result = "listing"
        /\ proc[p].prev = [op |-> "check", user |-> NoUser, ok |-> TRUE, clean |-> TRUE]
        /\ user_achievement = proc[p].preStore

\* the step in which the statistics or the catalog arrive
loadsStatsOrCatalog(p) ==
    \/ proc[p].pc = "chk_stats" /\ proc'[p].pc = "chk_all"
    \/ proc[p].pc = "chk_all" /\ proc'[p].pc = "chk_has"
    \/ proc[p].pc = "chk_all" /\ proc'[p].pc = "done" /\ activeIds = {}

C17_LoadFailureStep ==
    \A p \in Procs :
        (/\ proc[p].pc \in {"chk_stats", "chk_all"}
         /\ proc'[p] # proc[p]
         /\ ~loadsStatsOrCatalog(p)) =>
            /\ proc'[p].pc = "failed"
            /\ proc'[p].result = "error"
            /\ proc'[p].batch = <<>>
            /\ returned' = returned
            /\ user_achievement' = proc[p].preStore

\* C17: when loading the statistics snapshot or the catalog fails, the
\* check fails with the error handed to its caller, returns no batch and
\* has created no unlock record.
C17_LoadFailureAborts == [][C17_LoadFailureStep]_vars

\* the catalog query failed after the statistics of user 1 had arrived
C17_Witness ==
    \E p \in Procs :
        /\ proc[p].op = "check"
        /\ proc[p].pc = "failed"
        /\ hist = Summary(proc[p])
        /\ proc[p].user = 1
        /\ proc[p].stats.bucket_count.n > 0
        /\ proc[p].i = 0
        /\ proc[p].result = "error"
        /\ user_achievement = proc[p].preStore

\* the unlock rows a call has inserted so far: those of its batch and the
\* one whose rewards it is asking for
insertedBy(pr) ==
    {pr.batch[k].rid : k \in 1..Len(pr.batch)} \cup {pr.rec[k].id : k \in 1..Len(pr.rec)}

C18_RewardFailureStep ==
    \A p \in Procs :
        (/\ proc[p].pc \in {"chk_rewards", "frc_rewards"}
         /\ proc'[p].pc = "failed") =>
            /\ Len(user_achievement') = Len(proc[p].preStore) + Cardinality(insertedBy(proc[p]))
            /\ \A i \in insertedBy(proc[p]) :
                  /\ i \in 1..Len(user_achievement')
                  /\ user_achievement'[i] = user_achievement[i]
                  /\ user_achievement'[i].user_id = proc[p].user

\* C18: when getAchievementRewards fails after an unlock row was inserted
\* by checkAndRewardAchievements or forceUnlockAchievement, that row and
\* the rows the call inserted before it stay in the table.
C18_NoRollback == [][C18_RewardFailureStep]_vars

\* a check failed at the rewards of its second unlock
C18_Witness ==
    \E p \in Procs :
        /\ proc[p].op = "check"
        /\ proc[p].pc = "failed"
        /\ hist = Summary(proc[p])
        /\ Len(proc[p].batch) = 1
        /\ proc[p].rec # <<>>
        /\ Len(user_achievement) = Len(proc[p].preStore) + 2
        /\ hasUserUnlockedAchievement(proc[p].user, proc[p].list[proc[p].i].id)

\* every row of the unlock table is still there, as it was
C20_AppendOnlyStep ==
    /\ Len(user_achievement') >= Len(user_achievement)
    /\ \A i \in 1..Len(user_achievement) : user_achievement'[i] = user_achievement[i]

\* C20: unlock records are append-only: no operation (check, forced
\* unlock, addAchievementRule, updateAchievement of condition or
\* is_active, the reads) deletes an unlock record or changes its
\* unlocked_at or meta; replacing a condition by one the user does not
\* satisfy leaves the record in place.
C20_UnlockRecordsAppendOnly == [][C20_AppendOnlyStep]_vars

\* user 2 unlocked the second achievement by a check; its condition has
\* since been replaced by one user 2 does not satisfy
C20_Witness ==
    /\ edits = 1
    /\ achievement[2].condition.kind = "object"
    /\ isAchievementEligible(achievement[2], getUserStatsForAchievements(2)) = "false"
    /\ \E i \in recordsOf(2, 2) :
          /\ ~user_achievement[i].meta.forcedUnlock
          /\ user_achievement[i].unlocked_at < now

(***************************************************************************)
(* Claim about the check endpoint (checked under SpecHttp).                *)
(***************************************************************************)
\* C19: the check endpoint answers with the batch of the call it started:
\* a non-empty newAchievements list when the call unlocked something, the
\* empty result only when the call completed with an empty batch, and a
\* failure of the call as a failure.
C19_AnswerIsTheBatch ==
    \A p \in Procs :
        (/\ proc[p].op = "check"
         /\ proc[p].response.message # ""
         /\ proc[p].pc \in {"done", "failed"}) =>
            /\ (proc[p].pc = "done" /\ proc[p].batch # <<>>) =>
                  /\ proc[p].response.message = "unlocked"
                  /\ proc[p].response.newAchievements.items = proc[p].batch
            /\ proc[p].response.message = "none" =>
                  proc[p].pc = "done" /\ proc[p].batch = <<>>
            /\ proc[p].pc = "failed" => proc[p].response.message = "error"

(***************************************************************************)
(* Claims about concurrent requests (checked under SpecRace).              *)
(***************************************************************************)
\* a step of a check or forced-unlock call leaves catalog, reward links and
\* counters alone; the rewards of an entry it appends are the links of the
\* achievement as stored at that step; no unlock row holds rewards
C21_WritesOnlyUnlocksStep ==
    /\ \A p \in Procs :
          (proc'[p] # proc[p] /\ proc'[p].op \in {"check", "force"}) =>
              /\ UNCHANGED <<achievement, achievement_reward, user_metrics>>
              /\ Len(proc'[p].batch) > Len(proc[p].batch) =>
                    LET e == proc'[p].batch[Len(proc'[p].batch)]
                    IN  e.rewards = getAchievementRewards(e.id)
    /\ \A i \in 1..Len(user_achievement') :
          DOMAIN user_achievement'[i].meta = {"forcedUnlock", "stats"}

\* C21: checkAndRewardAchievements and forceUnlockAchievement write
\* nothing but rows of the unlock table: catalog, reward links and user
\* statistics are unchanged by them, and the rewards they return are read
\* from the reward links at call time, not copied into storage.
C21_WritesOnlyUnlocks == [][C21_WritesOnlyUnlocksStep]_vars

\* a call returned an entry with the reward linked while it was running
C21_Witness ==
    /\ edits > 0
    /\ \E e \in returned :
          /\ e.rewards # {}
          /\ e.rewards = getAchievementRewards(e.achievement_id)
          /\ \E i \in recordsOf(e.user, e.achievement_id) : user_achievement[i].id = e.rid

\* the rows of the catalog that carry `code`, active or not
rowsWithCode(code) == { i \in 1..Len(achievement) : achievement[i].code = code }

\* the requests that ran addAchievementRule for `code` and answered `result`
addsAnswered(code, result) ==
    { p \in Procs : /\ proc[p].op = "add" /\ proc[p].pc = "done"
                    /\ proc[p].code = code /\ proc[p].result = result }

\* a step of addAchievementRule changes the catalog only by appending one
\* row with a code no row had, and then answers true; with a row of the
\* code present, active or not, a returning call answers false
C22_AddStep ==
    \A p \in Procs :
        (proc'[p] # proc[p] /\ proc'[p].op = "add") =>
            /\ \/ achievement' = achievement
               \/ /\ rowsWithCode(proc'[p].code) = {}
                  /\ Len(achievement') = Len(achievement) + 1
                  /\ SubSeq(achievement', 1, Len(achievement)) = achievement
                  /\ achievement'[Len(achievement')].code = proc'[p].code
                  /\ proc'[p].pc = "done" /\ proc'[p].result = "true"
            /\ (proc'[p].pc = "done" /\ rowsWithCode(proc'[p].code) # {}) =>
                  (proc'[p].result = "false" /\ achievement' = achievement)
            /\ (proc'[p].pc = "done" /\ proc'[p].result = "true") =>
                  achievement' # achievement

\* C22: no two achievements ever share a code: addAchievementRule answers
\* false and creates nothing when the code exists, active or deactivated,
\* and of two concurrent calls for the same new code exactly one creates
\* the achievement while the other answers false.
C22_CodesUnique ==
    /\ \A i, j \in 1..Len(achievement) :
          achievement[i].code = achievement[j].code => i = j
    /\ \A c \in Codes : Cardinality(addsAnswered(c, "true")) <= 1

C22_AddNeverDuplicates == []C22_CodesUnique /\ [][C22_AddStep]_vars

\* two overlapping calls registered the same new code: one answered true,
\* the other, which had found no active row either, answered false
C22_Witness ==
    \E c \in Codes :
        /\ Cardinality(rowsWithCode(c)) = 1
        /\ addsAnswered(c, "true") # {}
        /\ addsAnswered(c, "false") # {}
        /\ achievement[Len(achievement)].code = c
        /\ Len(achievement) = 2

\* a call for the code of a deactivated achievement answered false
C22_WitnessDeactivated ==
    \E c \in Codes :
        /\ addsAnswered(c, "false") # {}
        /\ \E i \in rowsWithCode(c) : ~achievement[i].is_active

\* the creation time of the achievement of a returned entry
createdAt(entry) == achievement[entry.id].created_at

\* C23: checkAndRewardAchievements processes the active achievements in
\* catalog creation order, oldest first, and lists the new unlocks of its
\* batch in that order.
C23_OldestFirst ==
    \A p \in Procs :
        proc[p].op = "check" =>
            /\ \A i, j \in DOMAIN proc[p].list :
                  i < j => proc[p].list[i].created_at <= proc[p].list[j].created_at
            /\ \A i, j \in DOMAIN proc[p].batch :
                  i < j => createdAt(proc[p].batch[i]) <= createdAt(proc[p].batch[j])

\* what the query does instead: newest first
C23_NewestFirst ==
    \A p \in Procs :
        proc[p].op = "check" =>
            \A i, j \in DOMAIN proc[p].batch :
                i < j => createdAt(proc[p].batch[i]) >= createdAt(proc[p].batch[j])

\* a call returned two new unlocks
C23_TwoUnlocks ==
    \E p \in Procs : proc[p].op = "check" /\ proc[p].pc = "done" /\ Len(proc[p].batch) = 2

\* request p is inside the loop of checkAndRewardAchievements
inLoop(pr) == pr.op = "check" /\ pr.pc \in {"chk_has", "chk_unlock", "chk_rewards"}

\* the catalog as loaded holds rows that are active at the load and is kept
\* for the rest of the call; an unlock row inserted by the call is for an
\* achievement of that list; the insert issued for a loaded achievement is
\* made whatever the achievement's is_active has become
C24_LoadedActiveStep ==
    \A p \in Procs :
        LET pr == proc[p]
            nx == proc'[p]
        IN  /\ (pr.op = "check" /\ pr.pc = "chk_all" /\ nx # pr) =>
                  \A k \in DOMAIN nx.list :
                      /\ nx.list[k].id \in activeIds
                      /\ nx.list[k] = achievement[nx.list[k].id]
            /\ (inLoop(pr) /\ inLoop(nx)) => nx.list = pr.list
            /\ (inLoop(pr) /\ nx # pr /\ user_achievement' # user_achievement) =>
                  /\ pr.pc = "chk_unlock"
                  /\ Len(user_achievement') = Len(user_achievement) + 1
                  /\ LET row == user_achievement'[Len(user_achievement')]
                     IN  /\ row.user_id = pr.user
                         /\ row.achievement_id = pr.list[pr.i].id
                         /\ ~row.meta.forcedUnlock
            /\ (pr.op = "check" /\ pr.pc = "chk_unlock" /\ nx # pr /\ nx.pc # "failed"
                  /\ recordsOf(pr.user, pr.list[pr.i].id) = {}) =>
                  /\ nx.pc = "chk_rewards"
                  /\ recordsOf(pr.user, pr.list[pr.i].id)' # {}

\* C24: checkAndRewardAchievements never creates an unlock row for an
\* achievement that is inactive when the call loads the catalog; a
\* deactivation after the load does not keep that call from unlocking it.
C24_OnlyLoadedActive == [][C24_LoadedActiveStep]_vars

\* a call has inserted the unlock row of an achievement of its list that
\* the run's one edit has deactivated
C24_Witness ==
    \E p \in Procs :
        /\ proc[p].op = "check" /\ proc[p].pc = "chk_rewards"
        /\ edits = 1
        /\ ~achievement[proc[p].list[proc[p].i].id].is_active
        /\ recordsOf(proc[p].user, proc[p].list[proc[p].i].id) # {}

\* the insert is never made for an achievement deactivated since the load
C24_DeactivationStops ==
    [][\A p \in Procs :
          ~ /\ proc[p].pc = "chk_unlock" /\ proc'[p].pc = "chk_rewards"
            /\ ~achievement[proc[p].list[proc[p].i].id].is_active]_vars

\* the unlock row that request p has just inserted
insertedRow(pr) == user_achievement[pr.rec[1].id]

\* C25: every unlock row created by checkAndRewardAchievements stores in
\* meta.stats a snapshot on which all conditions of the achievement, as the
\* call loaded it, hold, also under concurrent changes of the statistics or
\* of the condition; rows created by forceUnlockAchievement carry
\* meta.forcedUnlock = true instead.
C25_StoredSnapshotSatisfies ==
    \A p \in Procs :
        /\ (proc[p].op = "check" /\ proc[p].pc = "chk_rewards") =>
              LET a == proc[p].list[proc[p].i]
              IN  /\ ~insertedRow(proc[p]).meta.forcedUnlock
                  /\ a.condition.kind \in {"object", "array"}
                  /\ \A n \in 1..Len(a.condition.items) :
                        conditionHolds(a.condition.items[n], insertedRow(proc[p]).meta.stats)
        /\ (proc[p].op = "force" /\ proc[p].pc = "frc_rewards") =>
              insertedRow(proc[p]).meta.forcedUnlock

\* the same with "hold" read as: the code's eligibility test answers true
C25_StoredSnapshotPassedTheTest ==
    \A p \in Procs :
        /\ (proc[p].op = "check" /\ proc[p].pc = "chk_rewards") =>
              /\ ~insertedRow(proc[p]).meta.forcedUnlock
              /\ isAchievementEligible(proc[p].list[proc[p].i],
                                       insertedRow(proc[p]).meta.stats) = "true"
        /\ (proc[p].op = "force" /\ proc[p].pc = "frc_rewards") =>
              insertedRow(proc[p]).meta.forcedUnlock

\* a row was inserted by a call whose snapshot is no longer the user's
\* statistics, or whose achievement has had its condition replaced
C25_RowUnderChange ==
    \E p \in Procs :
        /\ proc[p].op = "check" /\ proc[p].pc = "chk_rewards"
        /\ \/ proc[p].stats # getUserStatsForAchievements(proc[p].user)
           \/ LET a == proc[p].list[proc[p].i] IN achievement[a.id].condition # a.condition

\* the unlock rows a running check call has inserted and not yet returned
heldByRunningCheck ==
    UNION { insertedBy(proc[p]) :
              p \in {q \in Procs : proc[q].op = "check"
                                   /\ proc[q].pc \notin {"idle", "done", "failed"}} }

\* C26: every unlock row created by a checkAndRewardAchievements call
\* appears in the batch returned by the call that created it, also when
\* hasUserUnlockedAchievement, unlockUserAchievement or
\* getAchievementRewards fails later in the same call.
C26_CreatedIsReturned ==
    \A i \in 1..Len(user_achievement) :
        ~user_achievement[i].meta.forcedUnlock =>
            \/ i \in heldByRunningCheck
            \/ \E e \in returned :
                  /\ e.rid = user_achievement[i].id
                  /\ e.user = user_achievement[i].user_id
                  /\ e.achievement_id = user_achievement[i].achievement_id

\* C27: for a single `>=` condition with a positive integer target, the
\* listing reports progress = 100 only if the condition is satisfied by the
\* same statistics snapshot.
C27_FullOnlyIfSatisfied ==
    ( /\ ev.pc = "out" /\ ev.fn = "progressInfo"
      /\ Len(ev.condition.items) = 1
      /\ ev.condition.items[1].operator = ">="
      /\ ev.condition.items[1].value.t = "number"
      /\ ev.condition.items[1].value.n > 0 )
    => ( ev.result.progress = JsNum(100) =>
           /\ conditionHolds(ev.condition.items[1], ev.stats)
           /\ truthy(evaluateCondition(ev.condition.items[1], ev.stats)) )

\* the active achievements for which the user has an unlock row
activeUnlocked(u) == {a \in activeIds : recordsOf(u, a) # {}}

\* what a completed read of the user's achievements answers
C28_CompletedShape ==
    \A p \in Procs :
        /\ returnedCall(p, "completed") =>
              LET pr == proc[p]
              IN  /\ {pr.batch[k].id : k \in 1..Len(pr.batch)} = activeUnlocked(pr.user)
                  /\ Len(pr.batch) = Cardinality(activeUnlocked(pr.user))
                  /\ \A k \in 1..Len(pr.batch) :
                        /\ pr.batch[k].rid \in recordsOf(pr.user, pr.batch[k].id)
                        /\ pr.batch[k].completedAt =
                               user_achievement[pr.batch[k].rid].unlocked_at
        /\ (returnedCall(p, "list") /\ proc[p].user # NoUser) =>
              /\ proc[p].totals.totalCompleted = Cardinality(activeUnlocked(proc[p].user))
              /\ \A k \in 1..Len(proc[p].batch) :
                    proc[p].batch[k].isCompleted <=>
                        proc[p].batch[k].id \in activeUnlocked(proc[p].user)

\* an update of the catalog leaves the unlock rows as they are
C28_UpdateKeepsRows == achievement' # achievement => user_achievement' = user_achievement

\* C28: getUserCompletedAchievements returns an achievement exactly when
\* the user has an unlock row for it and the achievement is currently
\* active: deactivating it removes it from the completed list and from the
\* listing's totalCompleted without deleting the row, and reactivating it
\* brings it back with its original unlocked_at.
C28_CompletedIffActiveAndUnlocked == []C28_CompletedShape /\ [][C28_UpdateKeepsRows]_vars

\* the achievement unlocked at time 2 and deactivated since was reactivated
\* by the run's edit, and the completed list shows it with that time
C28_Witness ==
    \E p \in Procs :
        /\ returnedCall(p, "completed")
        /\ edits = 1
        /\ achievement[2].is_active
        /\ \E k \in 1..Len(proc[p].batch) :
              proc[p].batch[k].id = 2 /\ proc[p].batch[k].completedAt = 2

\* an unlocked achievement was deactivated: the completed list is without
\* it, its unlock row is in the table
C28_WitnessDeactivated ==
    \E p \in Procs :
        /\ returnedCall(p, "completed")
        /\ edits = 1
        /\ ~achievement[1].is_active
        /\ proc[p].batch = <<>>
        /\ recordsOf(proc[p].user, 1) # {}

\* the listing counts no completed achievement after the deactivation
C28_WitnessListing ==
    \E p \in Procs :
        /\ returnedCall(p, "list")
        /\ edits = 1
        /\ ~achievement[1].is_active
        /\ proc[p].totals.totalCompleted = 0
        /\ recordsOf(proc[p].user, 1) # {}

(***************************************************************************)
(* Claims about likes (checked under SpecLike).                            *)
(***************************************************************************)
\* no togglePostLike call is running
noToggleRunning == \A p \in Procs : ev.call[p].pc \in {"idle", "done", "failed"}

\* C29: for a user and a public bucket, after any sequence and interleaving
\* of togglePostLike calls that returned, the user has a like row exactly
\* when an odd number of the user's calls completed (starting from no
\* like), and there is never more than one like row per bucket and user.
C29_LikeParity ==
    /\ noToggleRunning =>
          \A u \in Users : (likeRowsOf(u) # {}) <=> (ev.completed[u] % 2 = 1)
    /\ \A u \in Users : Cardinality(likeRowsOf(u)) <= 1

\* the write of a call leaves the like state the call will answer, and the
\* call answers the number of like rows the bucket has when it returns
C29_ReturnStep ==
    \A p \in Procs :
        /\ (ev.call[p].pc = "write" /\ ev'.call[p].pc = "count") =>
              ((likeRowsOf(ev.call[p].user) # {})' <=> ~ev.call[p].isCurrentlyLiked)
        /\ (ev.call[p].pc = "count" /\ ev'.call[p].pc = "done") =>
              /\ ev'.call[p].isLiked = ~ev.call[p].isCurrentlyLiked
              /\ ev'.call[p].likeCount = Cardinality(ev.rows)

C29_ReturnsWhatItLeft == [][C29_ReturnStep]_vars

\* one like row per user at most
C29_OneRowPerUser == \A u \in Users : Cardinality(likeRowsOf(u)) <= 1

(***************************************************************************)
(* Claims about the day counters of a bucket (checked under SpecDays).     *)
(***************************************************************************)
\* the dates that have a progress row with `status`
datesWith(status) == {r.date : r \in {q \in ev.progress : q.status = status}}

C30_NothingRecordedWithoutConstraint ==
    ~ev.unique => (ev.progress = {} /\ ev.success_days = 0 /\ ev.fail_days = 0
                     /\ (ev.records > 0 => ev.threw))

\* there is one progress row per date at most
C30_OneRowPerDate ==
    \A r, q \in ev.progress : r.date = q.date => r = q

====
